---- MODULE Spec2Model ----
(***************************************************************************)
(* Degree-of-freedom layout (DofManager) and AD equation assembly          *)
(* (Equation, EquationManager) of porepy, as a state machine.              *)
(*                                                                         *)
(* Python dictionaries are modelled as sequences of <<key, value>> pairs   *)
(* in insertion order (the order in which .items() iterates).  Block       *)
(* indices and global DOF indices are 0-based as in the code; TLA+         *)
(* sequences are 1-based, so full_dof[i + 1] is the code's full_dof[i].    *)
(***************************************************************************)
EXTENDS Integers, Sequences, FiniteSets, TLC

VARIABLES
    gb,          \* the GridBucket: nodes (grids) and edges (interfaces) with data
    dm,          \* the DofManager object (the layout of the assembler)
    variables,   \* EquationManager.variables: entity -> {name -> Variable}
    equations,   \* EquationManager._equations: the list of Equation objects
    ret,         \* the last call: what was called, with what, and its outcome
    last         \* the last assemble_matrix_rhs call and what it returned, kept
                 \* for as long as the equation list and the stores stay as they were

vars == <<gb, dm, variables, equations, ret, last>>

----------------------------------------------------------------------------
\* Bounds of the model.

\* Largest number of grids in a GridBucket.
MaxGrids == 2

\* Largest number of dofs a variable declares per cell, face or node.
MaxCount == 2

\* Largest number of equations in the list of an EquationManager.
MaxEquations == 2

\* Number of state vectors assemble_matrix_rhs is called with.
NumStates == 2

\* Number of versions of the discretization matrices the store may hold.
NumVersions == 2

----------------------------------------------------------------------------
\* Python helpers.

\* dict.get(key, default) on a dictionary kept as a sequence of pairs.
Get(dict, key, default) ==
    IF \E i \in 1..Len(dict) : dict[i][1] = key
    THEN LET i == CHOOSE i \in 1..Len(dict) : dict[i][1] = key IN dict[i][2]
    ELSE default

\* The keys of a dictionary.
Keys(dict) == {dict[i][1] : i \in 1..Len(dict)}

RECURSIVE SumSeq(_)
\* np.sum / ndarray.sum() of a sequence of integers.
SumSeq(s) == IF s = <<>> THEN 0 ELSE s[1] + SumSeq(Tail(s))

\* np.hstack((0, np.cumsum(a))): entry i + 1 is the sum of the first i entries.
CumSum0(a) == [i \in 1..(Len(a) + 1) |-> SumSeq(SubSeq(a, 1, i - 1))]

\* np.arange(lo, hi)
ARange(lo, hi) == [i \in 1..(IF hi > lo THEN hi - lo ELSE 0) |-> lo + i - 1]

\* Range of a sequence.
Range(s) == {s[i] : i \in 1..Len(s)}

RECURSIVE Flatten(_)
\* The concatenation of a sequence of sequences (np.hstack of a list).
Flatten(ss) == IF ss = <<>> THEN <<>> ELSE ss[1] \o Flatten(Tail(ss))

----------------------------------------------------------------------------
\* The GridBuckets the model is run on.

\* A grid object is identified by <<g>>, g a positive integer, an interface
\* by the pair <<g, h>> of the grids it joins.  Grid g has g cells, g + 1
\* faces and g + 2 nodes; the mortar grid of the interface <<g, h>> has g cells.
Grid(g, d) ==
    [g |-> <<g>>, num_cells |-> g, num_faces |-> g + 1, num_nodes |-> g + 2, d |-> d]

Edge(g, d) == [e |-> <<g, g + 1>>, d |-> d]

MortarGrid(g) == [num_cells |-> g]

\* d[pp.PRIMARY_VARIABLES] of a grid, each variable with its dictionary
\* {cells|faces|nodes: count}: no variable, "p" without dofs, "p" on cells,
\* or "p" on nodes followed by "u" on cells and faces.
GridDecls ==
    { <<>>,
      << <<"p", <<>> >> >>,
      << <<"p", << <<"cells", 1>> >> >> >>,
      << <<"p", << <<"nodes", 1>> >> >>,
         <<"u", << <<"cells", 1>>, <<"faces", MaxCount>> >> >> >> }

\* d[pp.PRIMARY_VARIABLES] of an interface: no variable, "lam" on cells, or
\* "lam" on cells and faces.
EdgeDecls ==
    { <<>>,
      << <<"lam", << <<"cells", 1>> >> >> >>,
      << <<"lam", << <<"cells", MaxCount>>, <<"faces", 1>> >> >> >> }

\* Whether the data dictionary holds the key PRIMARY_VARIABLES, and its value.
DeclChoices(decls) ==
    { [has |-> FALSE, pv |-> <<>>] } \cup { [has |-> TRUE, pv |-> pv] : pv \in decls }

\* The data dictionary of a grid.
GridData(c) ==
    IF c.has THEN [primary_variables |-> c.pv, state |-> <<>>] ELSE [state |-> <<>>]

\* The data dictionary of an interface, which always holds its mortar grid.
EdgeData(g, c) ==
    IF c.has
    THEN [mortar_grid |-> MortarGrid(g), primary_variables |-> c.pv]
    ELSE [mortar_grid |-> MortarGrid(g)]

\* GridBuckets of n grids in a chain, with the n - 1 interfaces between them.
Buckets(n) ==
    { [nodes |-> [g \in 1..n |-> Grid(g, GridData(nc[g]))],
       edges |-> [g \in 1..(n - 1) |-> Edge(g, EdgeData(g, ec[g]))]] :
        nc \in [1..n -> DeclChoices(GridDecls)],
        ec \in [1..(n - 1) -> DeclChoices(EdgeDecls)] }

AllBuckets == UNION { Buckets(n) : n \in 1..MaxGrids }

----------------------------------------------------------------------------
\* DofManager

PRIMARY_VARIABLES == "primary_variables"

\* Dictionary assignment dict[key] = value: an existing key keeps its place.
SetItem(dict, key, value) ==
    IF \E i \in 1..Len(dict) : dict[i][1] = key
    THEN [i \in 1..Len(dict) |-> IF dict[i][1] = key THEN <<key, value>> ELSE dict[i]]
    ELSE Append(dict, <<key, value>>)

\* Number of dofs of one variable on a grid; a kind that is not declared
\* counts zero.
GridLocalDofs(g, local_dofs) ==
    g.num_cells * Get(local_dofs, "cells", 0)
    + g.num_faces * Get(local_dofs, "faces", 0)
    + g.num_nodes * Get(local_dofs, "nodes", 0)

\* Mutant of EdgeLocalDofs: the mortar grid counted like a grid, a declared
\* faces multiplicity adding dofs.
EdgeLocalDofsWithFaces(mg, local_dofs) ==
    mg.num_cells * Get(local_dofs, "cells", 0)
    + mg.num_cells * Get(local_dofs, "faces", 0)

\* Number of dofs of one variable on an interface: cells of the mortar grid only.
EdgeLocalDofs(mg, local_dofs) ==
    mg.num_cells * Get(local_dofs, "cells", 0)

RECURSIVE GridVarLoop(_, _, _, _)
\* The inner loop over d[PRIMARY_VARIABLES].items() of a grid, from item i on.
\* acc holds block_dof, block_dof_counter and full_dof.
GridVarLoop(acc, g, items, i) ==
    IF i > Len(items) THEN acc
    ELSE GridVarLoop(
            [block_dof |-> SetItem(acc.block_dof, <<g.g, items[i][1]>>,
                                   acc.block_dof_counter),
             block_dof_counter |-> acc.block_dof_counter + 1,
             full_dof |-> Append(acc.full_dof, GridLocalDofs(g, items[i][2]))],
            g, items, i + 1)

RECURSIVE EdgeVarLoop(_, _, _, _, _)
\* The inner loop over d[PRIMARY_VARIABLES].items() of an interface.
EdgeVarLoop(acc, e, mg, items, i) ==
    IF i > Len(items) THEN acc
    ELSE EdgeVarLoop(
            [block_dof |-> SetItem(acc.block_dof, <<e.e, items[i][1]>>,
                                   acc.block_dof_counter),
             block_dof_counter |-> acc.block_dof_counter + 1,
             full_dof |-> Append(acc.full_dof, EdgeLocalDofs(mg, items[i][2]))],
            e, mg, items, i + 1)

RECURSIVE GridLoopCounting(_, _, _)
\* The loop over the grids with a block index used up by every grid that
\* has no key PRIMARY_VARIABLES.
GridLoopCounting(acc, nodes, k) ==
    IF k > Len(nodes) THEN acc
    ELSE IF PRIMARY_VARIABLES \notin DOMAIN nodes[k].d
         THEN GridLoopCounting(
                 [acc EXCEPT !.block_dof_counter = acc.block_dof_counter + 1],
                 nodes, k + 1)
         ELSE GridLoopCounting(
                 GridVarLoop(acc, nodes[k], nodes[k].d.primary_variables, 1),
                 nodes, k + 1)

RECURSIVE GridLoop(_, _, _)
\* for g, d in gb: grids without the key PRIMARY_VARIABLES are passed over.
GridLoop(acc, nodes, k) ==
    IF k > Len(nodes) THEN acc
    ELSE IF PRIMARY_VARIABLES \notin DOMAIN nodes[k].d
         THEN GridLoop(acc, nodes, k + 1)
         ELSE GridLoop(GridVarLoop(acc, nodes[k], nodes[k].d.primary_variables, 1),
                       nodes, k + 1)

RECURSIVE EdgeLoop(_, _, _)
\* for e, d in gb.edges(): the same for the interfaces.
EdgeLoop(acc, edges, k) ==
    IF k > Len(edges) THEN acc
    ELSE IF PRIMARY_VARIABLES \notin DOMAIN edges[k].d
         THEN EdgeLoop(acc, edges, k + 1)
         ELSE EdgeLoop(EdgeVarLoop(acc, edges[k], edges[k].d.mortar_grid,
                                   edges[k].d.primary_variables, 1),
                       edges, k + 1)

\* Mutant of DofManagerInit: the interfaces numbered before the grids.
DofManagerInitEdgesFirst(bucket) ==
    LET start == [block_dof |-> <<>>, block_dof_counter |-> 0, full_dof |-> <<>>]
        acc == GridLoop(EdgeLoop(start, bucket.edges, 1), bucket.nodes, 1)
    IN [full_dof |-> acc.full_dof, block_dof |-> acc.block_dof]

\* DofManager.__init__(gb): the object it leaves behind.
DofManagerInit(bucket) ==
    LET start == [block_dof |-> <<>>, block_dof_counter |-> 0, full_dof |-> <<>>]
        acc == EdgeLoop(GridLoop(start, bucket.nodes, 1), bucket.edges, 1)
    IN [full_dof |-> acc.full_dof, block_dof |-> acc.block_dof]

\* Mutant of dof_ind: the block taken one entry too long.
dof_ind_inclusive(mgr, g, name) ==
    IF <<g, name>> \notin Keys(mgr.block_dof)
    THEN [status |-> "KeyError", value |-> <<>>]
    ELSE LET block_ind == Get(mgr.block_dof, <<g, name>>, -1)
             dof_start == CumSum0(mgr.full_dof)
         IN [status |-> "ok",
             value |-> ARange(dof_start[block_ind + 1], dof_start[block_ind + 2] + 1)]

\* Mutant of dof_ind: a key that is not declared looked up with a default
\* block instead of failing.
dof_ind_default(mgr, g, name) ==
    LET block_ind == Get(mgr.block_dof, <<g, name>>, 0)
        dof_start == CumSum0(Append(mgr.full_dof, 0))
    IN [status |-> "ok",
        value |-> ARange(dof_start[block_ind + 1], dof_start[block_ind + 2])]

\* DofManager.dof_ind(g, name): a KeyError for a key block_dof does not hold,
\* else the indices of the block.
dof_ind(mgr, g, name) ==
    IF <<g, name>> \notin Keys(mgr.block_dof)
    THEN [status |-> "KeyError", value |-> <<>>]
    ELSE LET block_ind == Get(mgr.block_dof, <<g, name>>, -1)
             dof_start == CumSum0(mgr.full_dof)
         IN [status |-> "ok",
             value |-> ARange(dof_start[block_ind + 1], dof_start[block_ind + 2])]

----------------------------------------------------------------------------
\* Operator trees (operators.Operator and its subclasses).
\*
\* An operator object is a record: cls is its class, oid tells objects of one
\* class apart (two records are equal exactly when they are the same Python
\* object), attrs holds its attributes, op and children are its _tree.

\* operators.Operation: the tags of a tree; void is the tag of a leaf.
Operation == {"void", "add", "sub", "mul", "div", "evaluate"}

Leaf(cls, oid, attrs) ==
    [cls |-> cls, oid |-> oid, attrs |-> attrs, op |-> "void", children |-> <<>>]

\* A composite operator, as the overloaded +, -, *, / of Operator build it.
Node(op, children) ==
    [cls |-> "Operator", oid |-> 0, attrs |-> <<>>, op |-> op, children |-> children]

\* operators.Variable(name, ndof, grid_like): the ids come from one counter
\* shared by all variables.
Variable(id, g, name) ==
    Leaf("Variable", id, [id |-> id, g |-> g, name |-> name])

\* pp.ad.MergedVariable(variables): its id is the id of its first variable.
MergedVariable(oid, sub_vars) ==
    Leaf("MergedVariable", oid,
         [id |-> IF sub_vars = <<>> THEN -1 ELSE sub_vars[1].attrs.id,
          sub_vars |-> sub_vars])

\* isinstance(op, operators.Variable) or isinstance(op, pp.ad.Variable):
\* MergedVariable is a subclass of Variable.
IsVariable(op) == op.cls \in {"Variable", "MergedVariable"}

----------------------------------------------------------------------------
\* Equation: variable discovery.

RECURSIVE find_subtree_variables(_)
\* Equation._find_subtree_variables(op): the operator itself for a variable
\* leaf, else the list of the variables below it, in tree order and with
\* repetitions.  The result is tagged with what it is.
find_subtree_variables(op) ==
    IF IsVariable(op)
    THEN [islist |-> FALSE, op |-> op, list |-> <<>>]
    ELSE LET sub_variables ==
                 [k \in 1..Len(op.children) |-> find_subtree_variables(op.children[k])]
             \* a variable child is appended, the variables of a list are appended
             found(k) == IF sub_variables[k].islist
                         THEN sub_variables[k].list
                         ELSE <<sub_variables[k].op>>
         IN [islist |-> TRUE, op |-> op,
             list |-> Flatten([k \in 1..Len(sub_variables) |-> found(k)])]

\* Whether a sequence is in ascending order of the ids (ties in any order).
SortedById(seq) ==
    \A i \in 1..(Len(seq) - 1) : seq[i].attrs.id <= seq[i + 1].attrs.id

\* The sequences without repetition over a finite set.
Orderings(S) ==
    { f \in [1..Cardinality(S) -> S] : \A i, j \in 1..Cardinality(S) : i # j => f[i] # f[j] }

\* sorted(found, key=lambda var: var.id) without the set(): a variable met
\* several times in the tree stays several times in the list.
sorted_variables_list(found) ==
    { f \in { [i \in 1..Len(found) |-> found[p[i]]] : p \in Orderings(1..Len(found)) } :
         SortedById(f) }

\* sorted(list(set(found)), key=lambda var: var.id): set() keeps one entry per
\* object and iterates in an order of its own; sorted() is stable, so
\* variables of one id stay in the order the set gave them.  All the lists
\* this can produce.
sorted_variables(found) ==
    { f \in Orderings(Range(found)) : SortedById(f) }

RECURSIVE MergedDofs(_, _, _)
\* The loop over variable.sub_vars of a MergedVariable, from sub-variable i
\* on: the index arrays of the sub-variables, or the KeyError of dof_ind.
MergedDofs(mgr, sub_vars, i) ==
    IF i > Len(sub_vars) THEN [status |-> "ok", value |-> <<>>]
    ELSE LET r == dof_ind(mgr, sub_vars[i].attrs.g, sub_vars[i].attrs.name)
             rest == MergedDofs(mgr, sub_vars, i + 1)
         IN IF r.status # "ok" THEN r
            ELSE IF rest.status # "ok" THEN rest
            ELSE [status |-> "ok", value |-> <<r.value>> \o rest.value]

\* np.hstack of a list of arrays: a ValueError for an empty list.
HStack(arrays) ==
    IF arrays = <<>> THEN [status |-> "ValueError", value |-> <<>>]
    ELSE [status |-> "ok", value |-> Flatten(arrays)]

\* One turn of the loop with the id of the last sub-variable recorded for a
\* MergedVariable.
VariableIndLastId(mgr, variable) ==
    IF variable.cls = "MergedVariable"
    THEN LET r == MergedDofs(mgr, variable.attrs.sub_vars, 1)
         IN IF r.status # "ok" THEN [status |-> r.status, ind |-> <<>>, ids |-> <<>>]
            ELSE [status |-> HStack(r.value).status,
                  ind |-> HStack(r.value).value,
                  ids |-> IF variable.attrs.sub_vars = <<>> THEN <<>>
                          ELSE <<variable.attrs.sub_vars[Len(variable.attrs.sub_vars)].attrs.id>>]
    ELSE LET r == dof_ind(mgr, variable.attrs.g, variable.attrs.name)
         IN [status |-> r.status, ind |-> r.value, ids |-> <<variable.attrs.id>>]

\* One turn of the loop over the variables in _identify_variables: the index
\* array of the variable and the ids it adds to variable_ids.
VariableInd(mgr, variable) ==
    IF variable.cls = "MergedVariable"
    THEN LET r == MergedDofs(mgr, variable.attrs.sub_vars, 1)
         IN IF r.status # "ok" THEN [status |-> r.status, ind |-> <<>>, ids |-> <<>>]
            ELSE [status |-> HStack(r.value).status,
                  ind |-> HStack(r.value).value,
                  ids |-> IF variable.attrs.sub_vars = <<>> THEN <<>>
                          ELSE <<variable.attrs.sub_vars[1].attrs.id>>]
    ELSE LET r == dof_ind(mgr, variable.attrs.g, variable.attrs.name)
         IN [status |-> r.status, ind |-> r.value, ids |-> <<variable.attrs.id>>]

RECURSIVE IdentifyLoop(_, _, _)
\* The loop "for variable in variables" from variable i on.
IdentifyLoop(mgr, var_list, i) ==
    IF i > Len(var_list) THEN [status |-> "ok", inds |-> <<>>, variable_ids |-> <<>>]
    ELSE LET one == VariableInd(mgr, var_list[i])
             rest == IdentifyLoop(mgr, var_list, i + 1)
         IN IF one.status # "ok"
            THEN [status |-> one.status, inds |-> <<>>, variable_ids |-> <<>>]
            ELSE IF rest.status # "ok" THEN rest
            ELSE [status |-> "ok",
                  inds |-> <<one.ind>> \o rest.inds,
                  variable_ids |-> one.ids \o rest.variable_ids]

\* Equation._identify_variables(dof_manager) with the variables in the order
\* var_list, one of sorted_variables: (inds, variable_ids) or the error.
identify_variables(mgr, var_list) == IdentifyLoop(mgr, var_list, 1)

\* Equation.__init__(operator, dof_manager, name): the Equations it may
\* leave behind, one per order set() may give, each with the list
\* `variables` of _identify_variables it came from, or the error raised.  A
\* tree that is a single variable makes _find_subtree_variables return the
\* variable and not a list, and set() of it raises a TypeError.
EquationInit(operator, mgr, name) ==
    LET found == find_subtree_variables(operator)
    IN IF ~found.islist
       THEN { [status |-> "TypeError", variables |-> <<>>, eq |-> <<>>] }
       ELSE { LET r == identify_variables(mgr, var_list)
              IN IF r.status # "ok"
                 THEN [status |-> r.status, variables |-> var_list, eq |-> <<>>]
                 ELSE [status |-> "ok",
                       variables |-> var_list,
                       eq |-> [operator |-> operator,
                               name |-> name,
                               variable_dofs |-> r.inds,
                               variable_ids |-> r.variable_ids,
                               stored_matrices |-> <<>>,
                               ad |-> <<>>]] :
              var_list \in sorted_variables(found.list) }

\* Equation.local_dofs(): np.hstack of the index arrays.
local_dofs(eq) == HStack(eq.variable_dofs)

----------------------------------------------------------------------------
\* Dense and sparse arrays.  A vector is a sequence of integers; a matrix is
\* a record of its shape (r rows, c columns) and its rows a.

Matrix(r, c, F(_, _)) ==
    [r |-> r, c |-> c, a |-> [i \in 1..r |-> [j \in 1..c |-> F(i, j)]]]

ZeroEntry(i, j) == 0

IdentityEntry(i, j) == IF i = j THEN 1 ELSE 0

\* The product of two matrices whose shapes agree.
MatMul(A, B) ==
    LET E(i, j) == SumSeq([k \in 1..A.c |-> A.a[i][k] * B.a[k][j]])
    IN Matrix(A.r, B.c, E)

\* The product of a matrix and a vector.
MatVec(A, v) == [i \in 1..A.r |-> SumSeq([k \in 1..A.c |-> A.a[i][k] * v[k]])]

\* diag(v) * A: row i of A scaled by v[i].
RowScale(v, A) ==
    LET E(i, j) == v[i] * A.a[i][j] IN Matrix(A.r, A.c, E)

MatAdd(A, B) ==
    LET E(i, j) == A.a[i][j] + B.a[i][j] IN Matrix(A.r, A.c, E)

MatSub(A, B) ==
    LET E(i, j) == A.a[i][j] - B.a[i][j] IN Matrix(A.r, A.c, E)

MatScale(k, A) ==
    LET E(i, j) == k * A.a[i][j] IN Matrix(A.r, A.c, E)

VecAdd(u, v) == [i \in 1..Len(u) |-> u[i] + v[i]]

VecSub(u, v) == [i \in 1..Len(u) |-> u[i] - v[i]]

VecMul(u, v) == [i \in 1..Len(u) |-> u[i] * v[i]]

VecScale(k, v) == [i \in 1..Len(v) |-> k * v[i]]

\* sps.block_diag(mats) of a list that is not empty.
BlockDiag(mats) ==
    LET rows == CumSum0([k \in 1..Len(mats) |-> mats[k].r])
        cols == CumSum0([k \in 1..Len(mats) |-> mats[k].c])
        blk(i) == CHOOSE k \in 1..Len(mats) : rows[k] < i /\ i <= rows[k + 1]
        E(i, j) == LET k == blk(i)
                   IN IF cols[k] < j /\ j <= cols[k + 1]
                      THEN mats[k].a[i - rows[k]][j - cols[k]]
                      ELSE 0
    IN Matrix(rows[Len(mats) + 1], cols[Len(mats) + 1], E)

\* sps.bmat([[m] for m in mats]) of a list that is not empty, all of one
\* number of columns: the matrices one below the other.
VStack(mats) ==
    LET rows == CumSum0([k \in 1..Len(mats) |-> mats[k].r])
        blk(i) == CHOOSE k \in 1..Len(mats) : rows[k] < i /\ i <= rows[k + 1]
        E(i, j) == mats[blk(i)].a[i - rows[blk(i)]][j]
    IN Matrix(rows[Len(mats) + 1], mats[1].c, E)

\* state[ind]: the entries of a vector at 0-based indices.
Take(state, ind) == [i \in 1..Len(ind) |-> state[ind[i] + 1]]

----------------------------------------------------------------------------
\* Values of an evaluation: t tells what v (and j) hold.
\*   "ad"      an Ad_array with val v and jac j
\*   "arr"     a numpy array v
\*   "mat"     a sparse matrix v
\*   "scalar"  a number v
\*   "func"    a pp.ad.Function object, v its name
\*   "err"     no value: the exception v was raised

AdArray(val, jac) == [t |-> "ad", v |-> val, j |-> jac]

Arr(val) == [t |-> "arr", v |-> val, j |-> <<>>]

Mat(m) == [t |-> "mat", v |-> m, j |-> <<>>]

Scalar(x) == [t |-> "scalar", v |-> x, j |-> <<>>]

Func(f) == [t |-> "func", v |-> f, j |-> <<>>]

Raise(exc) == [t |-> "err", v |-> exc, j |-> <<>>]

\* initAdArrays(variables): one Ad_array per array of the list, its Jacobian
\* the identity on the columns of its own array and zero on the columns of
\* the others, the columns being those of all the arrays one after the other.
initAdArrays(arrays) ==
    LET start == CumSum0([k \in 1..Len(arrays) |-> Len(arrays[k])])
        width == start[Len(arrays) + 1]
    IN [k \in 1..Len(arrays) |->
          LET E(i, j) == IF j = start[k] + i THEN 1 ELSE 0
          IN AdArray(arrays[k], Matrix(Len(arrays[k]), width, E))]

\* results[0] + results[1]
Add(x, y) ==
    CASE x.t = "ad" /\ y.t = "ad" ->
            IF Len(x.v) = Len(y.v) /\ x.j.c = y.j.c
            THEN AdArray(VecAdd(x.v, y.v), MatAdd(x.j, y.j))
            ELSE Raise("ValueError")
      [] x.t = "ad" /\ y.t = "arr" ->
            IF Len(x.v) = Len(y.v) THEN AdArray(VecAdd(x.v, y.v), x.j)
            ELSE Raise("ValueError")
      [] x.t = "arr" /\ y.t = "ad" ->
            IF Len(x.v) = Len(y.v) THEN AdArray(VecAdd(x.v, y.v), y.j)
            ELSE Raise("ValueError")
      [] x.t = "arr" /\ y.t = "arr" ->
            IF Len(x.v) = Len(y.v) THEN Arr(VecAdd(x.v, y.v))
            ELSE Raise("ValueError")
      [] x.t = "mat" /\ y.t = "mat" ->
            IF x.v.r = y.v.r /\ x.v.c = y.v.c THEN Mat(MatAdd(x.v, y.v))
            ELSE Raise("ValueError")
      [] x.t = "scalar" /\ y.t = "scalar" -> Scalar(x.v + y.v)
      [] OTHER -> Raise("TypeError")

\* results[0] - results[1]
Sub(x, y) ==
    CASE x.t = "ad" /\ y.t = "ad" ->
            IF Len(x.v) = Len(y.v) /\ x.j.c = y.j.c
            THEN AdArray(VecSub(x.v, y.v), MatSub(x.j, y.j))
            ELSE Raise("ValueError")
      [] x.t = "ad" /\ y.t = "arr" ->
            IF Len(x.v) = Len(y.v) THEN AdArray(VecSub(x.v, y.v), x.j)
            ELSE Raise("ValueError")
      [] x.t = "arr" /\ y.t = "ad" ->
            IF Len(x.v) = Len(y.v) THEN AdArray(VecSub(x.v, y.v), MatScale(-1, y.j))
            ELSE Raise("ValueError")
      [] x.t = "arr" /\ y.t = "arr" ->
            IF Len(x.v) = Len(y.v) THEN Arr(VecSub(x.v, y.v))
            ELSE Raise("ValueError")
      [] x.t = "mat" /\ y.t = "mat" ->
            IF x.v.r = y.v.r /\ x.v.c = y.v.c THEN Mat(MatSub(x.v, y.v))
            ELSE Raise("ValueError")
      [] x.t = "scalar" /\ y.t = "scalar" -> Scalar(x.v - y.v)
      [] OTHER -> Raise("TypeError")

\* results[0] * results[1]: a constant matrix multiplies value and Jacobian
\* from the left; two Ad_arrays multiply entry by entry, with the product rule.
Mul(x, y) ==
    CASE x.t = "mat" /\ y.t = "ad" ->
            IF x.v.c = Len(y.v) THEN AdArray(MatVec(x.v, y.v), MatMul(x.v, y.j))
            ELSE Raise("ValueError")
      [] x.t = "mat" /\ y.t = "arr" ->
            IF x.v.c = Len(y.v) THEN Arr(MatVec(x.v, y.v))
            ELSE Raise("ValueError")
      [] x.t = "mat" /\ y.t = "mat" ->
            IF x.v.c = y.v.r THEN Mat(MatMul(x.v, y.v))
            ELSE Raise("ValueError")
      [] x.t = "ad" /\ y.t = "ad" ->
            IF Len(x.v) = Len(y.v) /\ x.j.c = y.j.c
            THEN AdArray(VecMul(x.v, y.v),
                         MatAdd(RowScale(x.v, y.j), RowScale(y.v, x.j)))
            ELSE Raise("ValueError")
      [] x.t = "scalar" /\ y.t = "ad" -> AdArray(VecScale(x.v, y.v), MatScale(x.v, y.j))
      [] x.t = "ad" /\ y.t = "scalar" -> AdArray(VecScale(y.v, x.v), MatScale(y.v, x.j))
      [] x.t = "scalar" /\ y.t = "arr" -> Arr(VecScale(x.v, y.v))
      [] x.t = "scalar" /\ y.t = "mat" -> Mat(MatScale(x.v, y.v))
      [] x.t = "scalar" /\ y.t = "scalar" -> Scalar(x.v * y.v)
      [] OTHER -> Raise("TypeError")

\* results[0] / results[1].  The model carries integers: a quotient by a
\* scalar is exact or it is the value "float", a number the model does not
\* follow further.
Div(x, y) ==
    CASE x.t \in {"ad", "arr", "scalar"} /\ y.t = "scalar" ->
            IF y.v = 0 THEN Raise("ZeroDivisionError")
            ELSE IF x.t = "scalar"
                 THEN IF x.v % y.v = 0 THEN Scalar(x.v \div y.v)
                      ELSE [t |-> "float", v |-> <<>>, j |-> <<>>]
            ELSE IF \A i \in 1..Len(x.v) : x.v[i] % y.v = 0
                 THEN IF x.t = "arr" THEN Arr([i \in 1..Len(x.v) |-> x.v[i] \div y.v])
                      ELSE IF \A i \in 1..x.j.r : \A k \in 1..x.j.c : x.j.a[i][k] % y.v = 0
                           THEN LET E(i, k) == x.j.a[i][k] \div y.v
                                IN AdArray([i \in 1..Len(x.v) |-> x.v[i] \div y.v],
                                           Matrix(x.j.r, x.j.c, E))
                           ELSE [t |-> "float", v |-> <<>>, j |-> <<>>]
                 ELSE [t |-> "float", v |-> <<>>, j |-> <<>>]
      [] OTHER -> Raise("TypeError")

\* results[0].func(results[1:]): only a pp.ad.Function has the attribute
\* func.  The one function of the model squares its first argument entry by
\* entry and applies the chain rule to the Jacobian.
Evaluate(f, args) ==
    IF f.t # "func" THEN Raise("AttributeError")
    ELSE IF args = <<>> THEN Raise("IndexError")
    ELSE IF args[1].t = "ad"
         THEN AdArray(VecMul(args[1].v, args[1].v),
                      RowScale(VecScale(2, args[1].v), args[1].j))
    ELSE IF args[1].t = "arr" THEN Arr(VecMul(args[1].v, args[1].v))
    ELSE Raise("TypeError")

----------------------------------------------------------------------------
\* Equation: evaluation.

DISCRETIZATION_MATRICES == "discretization_matrices"

PARAMETERS == "parameters"

\* gb.node_props(g) or gb.edge_props(g): the data dictionary of an entity.
\* isinstance(g, pp.Grid) tells a grid <<g>> from an interface <<g, h>>.
Props(bucket, g) ==
    IF Len(g) = 1
    THEN (CHOOSE n \in Range(bucket.nodes) : n.g = g).d
    ELSE (CHOOSE e \in Range(bucket.edges) : e.e = g).d

\* dict[key] on a dictionary kept as a sequence of pairs.
Lookup(dict, key) ==
    IF key \in Keys(dict) THEN [status |-> "ok", value |-> Get(dict, key, <<>>)]
    ELSE [status |-> "KeyError", value |-> <<>>]

\* The body of the loop over op.grid_discr.items() for one (g, discr): the
\* matrix of the store under (keyword, matrix name), or the error raised.
StoredMatrix(bucket, op, g, discr) ==
    LET data == Props(bucket, g)
        mat_dict_key == IF op.attrs.mat_dict_key # "None"
                        THEN op.attrs.mat_dict_key ELSE discr.keyword
    IN IF DISCRETIZATION_MATRICES \notin DOMAIN data THEN Raise("KeyError")
       ELSE LET mat_dict == Lookup(data.discretization_matrices, mat_dict_key)
            IN IF mat_dict.status # "ok" THEN Raise("KeyError")
               ELSE LET mat_key == Lookup(discr.matrix_keys, op.attrs.key)
                    IN IF mat_key.status # "ok" THEN Raise("AttributeError")
                       ELSE LET m == Lookup(mat_dict.value, mat_key.value)
                            IN IF m.status # "ok" THEN Raise("KeyError")
                               ELSE Mat(m.value)

\* The first error among values, or the values themselves.
FirstError(vals) ==
    IF \E k \in 1..Len(vals) : vals[k].t = "err"
    THEN vals[CHOOSE k \in 1..Len(vals) :
                 vals[k].t = "err" /\ \A h \in 1..(k - 1) : vals[h].t # "err"]
    ELSE Raise("none")

\* The discretization-bound leaf resolved against the store: the
\* block-diagonal matrix of the matrices of its grids, or the error.
ResolveMergedOperator(bucket, op) ==
    LET mat == [k \in 1..Len(op.attrs.grid_discr) |->
                   StoredMatrix(bucket, op, op.attrs.grid_discr[k][1],
                                op.attrs.grid_discr[k][2])]
    IN IF FirstError(mat).v # "none" THEN FirstError(mat)
       ELSE IF mat = <<>> THEN Raise("ValueError")
       ELSE Mat(BlockDiag([k \in 1..Len(mat) |-> mat[k].v]))

\* The BoundaryCondition leaf: np.hstack of the bc_values of its grids.
BoundaryValues(bucket, op) ==
    LET val == [k \in 1..Len(op.attrs.g) |->
                   LET data == Props(bucket, op.attrs.g[k])
                   IN IF PARAMETERS \notin DOMAIN data THEN Raise("KeyError")
                      ELSE LET par == Lookup(data.parameters, op.attrs.keyword)
                           IN IF par.status # "ok" THEN Raise("KeyError")
                              ELSE LET bc == Lookup(par.value, "bc_values")
                                   IN IF bc.status # "ok" THEN Raise("KeyError")
                                      ELSE Arr(bc.value)]
    IN IF FirstError(val).v # "none" THEN FirstError(val)
       ELSE IF val = <<>> THEN Raise("ValueError")
       ELSE Arr(Flatten([k \in 1..Len(val) |-> val[k].v]))

\* pp.fvutils.scalar_divergence(g) or vector_divergence(g) of one grid: a
\* cells x faces matrix (cells x 2*faces for the vector flavour) of the
\* signs with which the faces bound the cells.
Divergence(bucket, g, scalar) ==
    LET n == CHOOSE n \in Range(bucket.nodes) : n.g = g
        E(i, j) == IF j = i THEN -1 ELSE IF j = i + 1 THEN 1 ELSE 0
    IN Matrix(n.num_cells, IF scalar THEN n.num_faces ELSE 2 * n.num_faces, E)

\* The combination with the operands of mul taken the other way round.
CombineMulSwapped(op, results) ==
    CASE op = "add" ->
            IF Len(results) # 2 THEN Raise("AssertionError")
            ELSE Add(results[1], results[2])
      [] op = "sub" ->
            IF Len(results) # 2 THEN Raise("AssertionError")
            ELSE Sub(results[1], results[2])
      [] op = "mul" ->
            IF Len(results) < 2 THEN Raise("IndexError")
            ELSE Mul(results[2], results[1])
      [] op = "evaluate" -> Evaluate(results[1], Tail(results))
      [] op = "div" ->
            IF Len(results) < 2 THEN Raise("IndexError")
            ELSE Div(results[1], results[2])
      [] OTHER -> Raise("ValueError")

\* The combination with the operands of sub taken the other way round.
CombineSubSwapped(op, results) ==
    CASE op = "add" ->
            IF Len(results) # 2 THEN Raise("AssertionError")
            ELSE Add(results[1], results[2])
      [] op = "sub" ->
            IF Len(results) # 2 THEN Raise("AssertionError")
            ELSE Sub(results[2], results[1])
      [] op = "mul" ->
            IF Len(results) < 2 THEN Raise("IndexError")
            ELSE Mul(results[1], results[2])
      [] op = "evaluate" -> Evaluate(results[1], Tail(results))
      [] op = "div" ->
            IF Len(results) < 2 THEN Raise("IndexError")
            ELSE Div(results[1], results[2])
      [] OTHER -> Raise("ValueError")

\* The combination with a tag that is no operation handing back the result
\* of the first child.
CombineLenient(op, results) ==
    CASE op = "add" ->
            IF Len(results) # 2 THEN Raise("AssertionError")
            ELSE Add(results[1], results[2])
      [] op = "sub" ->
            IF Len(results) # 2 THEN Raise("AssertionError")
            ELSE Sub(results[1], results[2])
      [] op = "mul" ->
            IF Len(results) < 2 THEN Raise("IndexError")
            ELSE Mul(results[1], results[2])
      [] op = "evaluate" -> Evaluate(results[1], Tail(results))
      [] op = "div" ->
            IF Len(results) < 2 THEN Raise("IndexError")
            ELSE Div(results[1], results[2])
      [] OTHER -> results[1]

\* The combination of the children's results by the tag of the tree.
Combine(op, results) ==
    CASE op = "add" ->
            IF Len(results) # 2 THEN Raise("AssertionError")
            ELSE Add(results[1], results[2])
      [] op = "sub" ->
            IF Len(results) # 2 THEN Raise("AssertionError")
            ELSE Sub(results[1], results[2])
      [] op = "mul" ->
            IF Len(results) < 2 THEN Raise("IndexError")
            ELSE Mul(results[1], results[2])
      [] op = "evaluate" -> Evaluate(results[1], Tail(results))
      [] op = "div" ->
            IF Len(results) < 2 THEN Raise("IndexError")
            ELSE Div(results[1], results[2])
      [] OTHER -> Raise("ValueError")

\* What a call of _parse_operator hands back: the value returned (or the
\* error raised) and _stored_matrices as the call leaves it.
Parsed(res, stored) == [res |-> res, results |-> <<>>, stored |-> stored]

\* The leaf resolved to `matrix` and returned, nothing stored.
StoreResolvedNowhere(stored, op, matrix) == Parsed(matrix, stored)

\* The leaf resolved to `matrix`, with twice the matrix stored under the leaf.
StoreResolvedScaled(stored, op, matrix) ==
    IF matrix.t = "err" THEN Parsed(matrix, stored)
    ELSE Parsed(matrix, SetItem(stored, op, MatScale(2, matrix.v)))

\* The leaf resolved to `matrix` (or to an error): a matrix is stored under
\* the leaf, self._stored_matrices[op] = matrix, and returned.
StoreResolved(stored, op, matrix) ==
    IF matrix.t = "err" THEN Parsed(matrix, stored)
    ELSE Parsed(matrix, SetItem(stored, op, matrix.v))

\* The children evaluated to sub: their error, or their results combined.
Combined(tag, sub) ==
    IF sub.res.t = "err" THEN Parsed(sub.res, sub.stored)
    ELSE Parsed(Combine(tag, sub.results), sub.stored)

\* The result of one child put in front of the results of those after it.
Prepend(x, rest) ==
    [res |-> rest.res, results |-> <<x>> \o rest.results, stored |-> rest.stored]

RECURSIVE parse_operator(_, _, _, _, _)
RECURSIVE ParseRest(_, _, _, _, _)
\* Equation._parse_operator(op, gb) of an Equation whose _ad is ad and whose
\* _stored_matrices is stored.
\*   i = 0: the call itself.
\*   i > 0: the list comprehension
\*             results = [self._parse_operator(child, gb) for child in tree._children]
\*          from child i on: the children are evaluated in order, each seeing
\*          the matrices stored by those before it, up to the first that
\*          raises (res is then that error, else it is no error).
parse_operator(ad, stored, op, bucket, i) ==
    IF i > 0
    THEN IF i > Len(op.children)
         THEN [res |-> Scalar(0), results |-> <<>>, stored |-> stored]
         ELSE ParseRest(parse_operator(ad, stored, op.children[i], bucket, 0),
                        ad, op, bucket, i)
    ELSE IF IsVariable(op)
    THEN IF Len(op.children) # 0 THEN Parsed(Raise("AssertionError"), stored)
         ELSE IF op.cls = "MergedVariable" /\ op.attrs.sub_vars = <<>>
         THEN Parsed(Raise("IndexError"), stored)
         ELSE IF op.cls = "MergedVariable"
         THEN Parsed(IF op.attrs.sub_vars[1].attrs.id \in Keys(ad)
                     THEN Get(ad, op.attrs.sub_vars[1].attrs.id, <<>>)
                     ELSE Raise("KeyError"), stored)
         ELSE Parsed(IF op.attrs.id \in Keys(ad) THEN Get(ad, op.attrs.id, <<>>)
                     ELSE Raise("KeyError"), stored)
    ELSE IF op.cls = "BoundaryCondition" THEN Parsed(BoundaryValues(bucket, op), stored)
    ELSE IF op.cls = "Matrix" THEN Parsed(Mat(op.attrs.mat), stored)
    ELSE IF op.cls = "Array" THEN Parsed(Arr(op.attrs.values), stored)
    ELSE IF op.cls = "Function" THEN Parsed(Func(op.attrs.func), stored)
    ELSE IF op.cls = "Scalar" THEN Parsed(Scalar(op.attrs.value), stored)
    ELSE IF op.cls = "Divergence"
    THEN Parsed(IF op.attrs.g = <<>> THEN Raise("ValueError")
                ELSE Mat(BlockDiag([k \in 1..Len(op.attrs.g) |->
                            Divergence(bucket, op.attrs.g[k], op.attrs.scalar)])),
                stored)
    ELSE IF Len(op.children) = 0
    THEN IF op.cls = "MergedOperator"
         THEN IF op \in Keys(stored) THEN Parsed(Mat(Get(stored, op, <<>>)), stored)
              ELSE StoreResolved(stored, op, ResolveMergedOperator(bucket, op))
         ELSE Parsed(Raise("AssertionError"), stored)
    ELSE Combined(op.op, parse_operator(ad, stored, op, bucket, 1))

\* The list comprehension after child i has been evaluated to first.
ParseRest(first, ad, op, bucket, i) ==
    IF first.res.t = "err"
    THEN [res |-> first.res, results |-> <<>>, stored |-> first.stored]
    ELSE Prepend(first.res, parse_operator(ad, first.stored, op, bucket, i + 1))

RECURSIVE Zip(_, _)
\* {k: v for (k, v) in zip(keys, values)}: zip stops at the shorter list, and
\* a key met again takes the later value.
Zip(keys, values) ==
    IF keys = <<>> \/ values = <<>> THEN <<>>
    ELSE LET n == IF Len(keys) < Len(values) THEN Len(keys) ELSE Len(values)
         IN SetItem(Zip(SubSeq(keys, 1, n - 1), SubSeq(values, 1, n - 1)),
                    keys[n], values[n])

\* self._ad = {var_id: ad for (var_id, ad) in zip(self._variable_ids, ad_vars)},
\* ad_vars being initAdArrays([state[ind] for ind in self._variable_dofs]).
SeededVariables(eq, state) ==
    Zip(eq.variable_ids,
        initAdArrays([k \in 1..Len(eq.variable_dofs) |-> Take(state, eq.variable_dofs[k])]))

\* The Equation after an evaluation that takes the matrices it has stored
\* back out of the cache when it ends in an error.
EvaluatedRollingBack(eq, ad, parsed) ==
    [res |-> parsed.res,
     eq |-> [eq EXCEPT !.ad = ad,
                       !.stored_matrices = IF parsed.res.t = "err" THEN eq.stored_matrices
                                           ELSE parsed.stored]]

\* The Equation after its tree was evaluated to parsed with _ad set to ad.
Evaluated(eq, ad, parsed) ==
    [res |-> parsed.res,
     eq |-> [eq EXCEPT !.ad = ad, !.stored_matrices = parsed.stored]]

\* to_ad once self._ad is set.
ToAdWith(eq, ad, bucket) ==
    Evaluated(eq, ad, parse_operator(ad, eq.stored_matrices, eq.operator, bucket, 0))

\* Equation.to_ad(assembler, gb, state): the value returned (or the error)
\* and the Equation as the call leaves it, _ad set and matrices stored.
to_ad(eq, bucket, state) == ToAdWith(eq, SeededVariables(eq, state), bucket)

----------------------------------------------------------------------------
\* EquationManager

RECURSIVE SetVariablesLoop(_, _, _)
\* The two loops of _set_variables over the entities (grids, then
\* interfaces) from entity k on: variables[g][var] = Variable(var, info, g),
\* each new Variable taking the next id.  d[pp.PRIMARY_VARIABLES] raises a
\* KeyError for an entity without the key.
SetVariablesLoop(acc, ents, k) ==
    IF k > Len(ents) \/ acc.status # "ok" THEN acc
    ELSE IF PRIMARY_VARIABLES \notin DOMAIN ents[k].d
         THEN [acc EXCEPT !.status = "KeyError"]
         ELSE LET pv == ents[k].d.primary_variables
                  made == [i \in 1..Len(pv) |->
                             <<pv[i][1], Variable(acc.next_id + i - 1, ents[k].id, pv[i][1])>>]
              IN SetVariablesLoop(
                    [status |-> "ok",
                     variables |-> SetItem(acc.variables, ents[k].id, made),
                     next_id |-> acc.next_id + Len(pv)],
                    ents, k + 1)

\* EquationManager._set_variables(gb): the registry, or the KeyError.
set_variables(bucket) ==
    LET ents == [k \in 1..(Len(bucket.nodes) + Len(bucket.edges)) |->
                    IF k <= Len(bucket.nodes)
                    THEN [id |-> bucket.nodes[k].g, d |-> bucket.nodes[k].d]
                    ELSE [id |-> bucket.edges[k - Len(bucket.nodes)].e,
                          d |-> bucket.edges[k - Len(bucket.nodes)].d]]
    IN SetVariablesLoop([status |-> "ok", variables |-> <<>>, next_id |-> 0], ents, 1)

\* self.variables[g][v]
RegistryVariable(registry, g, v) == Get(Get(registry, g, <<>>), v, <<>>)

\* The scatter matrix with the indices of local_dofs read as counting from 1.
ProjectionFromOne(dofs, num_global_dofs) ==
    LET E(i, j) == IF dofs[i] = j THEN 1 ELSE 0
    IN Matrix(Len(dofs), num_global_dofs, E)

\* The scatter matrix sps.coo_matrix((np.ones(n), (np.arange(n), local_dofs)),
\* shape=(n, num_global_dofs)): row i holds a one in column local_dofs[i].
Projection(dofs, num_global_dofs) ==
    LET E(i, j) == IF dofs[i] + 1 = j THEN 1 ELSE 0
    IN Matrix(Len(dofs), num_global_dofs, E)

\* What one turn of the loop over the equations leaves: the Equation as its
\* to_ad left it and, without an error, the block m and the segment b.
Turn(status, eq, m, b) == [status |-> status, eq |-> eq, m |-> m, b |-> b]

\* The turn of the loop with the Jacobian widened to the global columns
\* but not scattered: its columns stay the first columns of the block.
ProjectedUnscattered(ad, dofs, num_global_dofs) ==
    IF ad.res.t = "err" THEN Turn(ad.res.v, ad.eq, <<>>, <<>>)
    ELSE IF dofs.status # "ok" THEN Turn(dofs.status, ad.eq, <<>>, <<>>)
    ELSE IF ad.res.t # "ad" THEN Turn("AttributeError", ad.eq, <<>>, <<>>)
    ELSE IF ad.res.j.c # Len(dofs.value) THEN Turn("ValueError", ad.eq, <<>>, <<>>)
    ELSE Turn("ok", ad.eq,
              MatMul(ad.res.j, Projection(ARange(0, Len(dofs.value)), num_global_dofs)),
              VecScale(-1, ad.res.v))

\* The turn of the loop with the whole equation moved to the right-hand
\* side: the Jacobian block negated along with the residual.
ProjectedAllNegated(ad, dofs, num_global_dofs) ==
    IF ad.res.t = "err" THEN Turn(ad.res.v, ad.eq, <<>>, <<>>)
    ELSE IF dofs.status # "ok" THEN Turn(dofs.status, ad.eq, <<>>, <<>>)
    ELSE IF ad.res.t # "ad" THEN Turn("AttributeError", ad.eq, <<>>, <<>>)
    ELSE IF ad.res.j.c # Len(dofs.value) THEN Turn("ValueError", ad.eq, <<>>, <<>>)
    ELSE Turn("ok", ad.eq,
              MatScale(-1, MatMul(ad.res.j, Projection(dofs.value, num_global_dofs))),
              VecScale(-1, ad.res.v))

\* The turn of the loop with the residual appended as it is, not negated.
ProjectedPlain(ad, dofs, num_global_dofs) ==
    IF ad.res.t = "err" THEN Turn(ad.res.v, ad.eq, <<>>, <<>>)
    ELSE IF dofs.status # "ok" THEN Turn(dofs.status, ad.eq, <<>>, <<>>)
    ELSE IF ad.res.t # "ad" THEN Turn("AttributeError", ad.eq, <<>>, <<>>)
    ELSE IF ad.res.j.c # Len(dofs.value) THEN Turn("ValueError", ad.eq, <<>>, <<>>)
    ELSE Turn("ok", ad.eq,
              MatMul(ad.res.j, Projection(dofs.value, num_global_dofs)),
              ad.res.v)

\* The turn of the loop once to_ad has returned ad and local_dofs() dofs:
\* the block ad.jac * projection and the segment -ad.val.  Only an Ad_array
\* has the attributes jac and val.
Projected(ad, dofs, num_global_dofs) ==
    IF ad.res.t = "err" THEN Turn(ad.res.v, ad.eq, <<>>, <<>>)
    ELSE IF dofs.status # "ok" THEN Turn(dofs.status, ad.eq, <<>>, <<>>)
    ELSE IF ad.res.t # "ad" THEN Turn("AttributeError", ad.eq, <<>>, <<>>)
    ELSE IF ad.res.j.c # Len(dofs.value) THEN Turn("ValueError", ad.eq, <<>>, <<>>)
    ELSE Turn("ok", ad.eq,
              MatMul(ad.res.j, Projection(dofs.value, num_global_dofs)),
              VecScale(-1, ad.res.v))

\* The body of the loop over the equations for one equation.
AssembleEquation(eq, bucket, state, num_global_dofs) ==
    Projected(to_ad(eq, bucket, state), local_dofs(eq), num_global_dofs)

\* mat and b after the turn `one` for equation i, the block and the segment
\* put in front of the earlier ones.
CollectedInFront(acc, i, one) ==
    [status |-> one.status,
     equations |-> [acc.equations EXCEPT ![i] = one.eq],
     mat |-> IF one.status = "ok" THEN <<one.m>> \o acc.mat ELSE acc.mat,
     b |-> IF one.status = "ok" THEN <<one.b>> \o acc.b ELSE acc.b]

\* mat and b after the turn `one` for equation i, the matrices equation i
\* has stored handed on to the equation after it.
CollectedSharing(acc, i, one) ==
    [status |-> one.status,
     equations |-> [k \in 1..Len(acc.equations) |->
                      IF k = i THEN one.eq
                      ELSE IF k = i + 1
                        THEN [acc.equations[k] EXCEPT !.stored_matrices = one.eq.stored_matrices]
                      ELSE acc.equations[k]],
     mat |-> IF one.status = "ok" THEN Append(acc.mat, one.m) ELSE acc.mat,
     b |-> IF one.status = "ok" THEN Append(acc.b, one.b) ELSE acc.b]

\* mat and b after the turn `one` for equation i, the evaluated equation
\* taken out of the list and appended at its end.
CollectedMovedLast(acc, i, one) ==
    [status |-> one.status,
     equations |-> Append(SubSeq(acc.equations, 1, i - 1)
                             \o SubSeq(acc.equations, i + 1, Len(acc.equations)),
                          one.eq),
     mat |-> IF one.status = "ok" THEN Append(acc.mat, one.m) ELSE acc.mat,
     b |-> IF one.status = "ok" THEN Append(acc.b, one.b) ELSE acc.b]

\* mat and b after the turn `one` for equation i.
Collected(acc, i, one) ==
    [status |-> one.status,
     equations |-> [acc.equations EXCEPT ![i] = one.eq],
     mat |-> IF one.status = "ok" THEN Append(acc.mat, one.m) ELSE acc.mat,
     b |-> IF one.status = "ok" THEN Append(acc.b, one.b) ELSE acc.b]

RECURSIVE AssembleLoopSkipping(_, _, _, _, _)
\* The loop over the equations going on after an equation that failed, and
\* building the system from the equations that did not.
AssembleLoopSkipping(acc, i, bucket, state, num_global_dofs) ==
    IF i > Len(acc.equations) THEN acc
    ELSE AssembleLoopSkipping(
            [Collected(acc, i,
                       AssembleEquation(acc.equations[i], bucket, state, num_global_dofs))
                EXCEPT !.status = "ok"],
            i + 1, bucket, state, num_global_dofs)

RECURSIVE AssembleLoop(_, _, _, _, _)
\* for eq in self._equations, from equation i on, acc holding mat, b and the
\* equations as evaluated so far.  An error ends the loop: the equations
\* after the failing one are not evaluated.
AssembleLoop(acc, i, bucket, state, num_global_dofs) ==
    IF i > Len(acc.equations) \/ acc.status # "ok" THEN acc
    ELSE AssembleLoop(
            Collected(acc, i,
                      AssembleEquation(acc.equations[i], bucket, state, num_global_dofs)),
            i + 1, bucket, state, num_global_dofs)

\* What assemble_matrix_rhs hands back.
Assembled(status, eqs, A, rhs) ==
    [status |-> status, equations |-> eqs, A |-> A, rhs |-> rhs]

\* The two lines after the loop handing back a system without rows when
\* there is no block.
StackedOrEmpty(done) ==
    IF done.status # "ok" THEN Assembled(done.status, done.equations, <<>>, <<>>)
    ELSE IF done.mat = <<>>
    THEN Assembled("ok", done.equations, [r |-> 0, c |-> 0, a |-> <<>>], <<>>)
    ELSE Assembled("ok", done.equations, VStack(done.mat), Flatten(done.b))

\* The two lines after the loop: sps.bmat of an empty list of blocks raises
\* a ValueError.
Stacked(done) ==
    IF done.status # "ok" THEN Assembled(done.status, done.equations, <<>>, <<>>)
    ELSE IF done.mat = <<>> THEN Assembled("ValueError", done.equations, <<>>, <<>>)
    ELSE Assembled("ok", done.equations, VStack(done.mat), Flatten(done.b))

\* EquationManager.assemble_matrix_rhs(state): (A, rhs) or the error raised,
\* and the equations as the call leaves them.
assemble_matrix_rhs(eqs, mgr, bucket, state) ==
    Stacked(AssembleLoop([status |-> "ok", equations |-> eqs, mat |-> <<>>, b |-> <<>>],
                         1, bucket, state, SumSeq(mgr.full_dof)))

----------------------------------------------------------------------------
\* The layout calls as actions.

NoDofManager == [full_dof |-> <<>>, block_dof |-> <<>>, built |-> FALSE]

NoCall == [op |-> "none", args |-> <<>>, status |-> "ok", value |-> <<>>]

\* The record of the last assembly while nothing it read has changed: the
\* state vector it was given, what it returned, and how many times in a row
\* (counted up to 2) assemble_matrix_rhs was called with that state vector.
NoAssembly ==
    [valid |-> FALSE, state |-> <<>>, status |-> "ok", value |-> <<>>, calls |-> 0]

\* Entities and names dof_ind is asked about: every grid and interface the
\* bucket could hold, declared or not.
AskEntities == {<<g>> : g \in 1..MaxGrids} \cup {<<g, g + 1>> : g \in 1..(MaxGrids - 1)}

AskNames == {"p", "u", "lam"}

InitDof ==
    /\ gb \in AllBuckets
    /\ dm = NoDofManager
    /\ variables = <<>>
    /\ equations = <<>>
    /\ ret = NoCall
    /\ last = NoAssembly

\* dm = DofManager(gb)
Construct ==
    /\ ~dm.built
    /\ dm' = LET new == DofManagerInit(gb)
             IN [full_dof |-> new.full_dof, block_dof |-> new.block_dof,
                 built |-> TRUE]
    /\ ret' = [NoCall EXCEPT !.op = "DofManager"]
    /\ UNCHANGED <<gb, variables, equations, last>>

\* dm.dof_ind(g, name)
DofInd ==
    /\ dm.built
    /\ \E g \in AskEntities, name \in AskNames :
          LET r == dof_ind(dm, g, name)
          IN ret' = [op |-> "dof_ind", args |-> <<g, name>>,
                     status |-> r.status, value |-> r.value]
    /\ UNCHANGED <<gb, dm, variables, equations, last>>

\* manager = EquationManager(gb) on the bucket the layout was built for:
\* _set_variables(gb) comes first, and when it raises no manager is made.
ConstructManager ==
    /\ dm.built
    /\ \E r \in {set_variables(gb)} :
          /\ variables' = IF r.status = "ok" THEN r.variables ELSE variables
          /\ ret' = [NoCall EXCEPT !.op = "EquationManager", !.status = r.status]
    /\ UNCHANGED <<gb, dm, equations, last>>

NextDof == Construct \/ DofInd \/ ConstructManager

SpecDof == InitDof /\ [][NextDof]_vars

----------------------------------------------------------------------------
\* The GridBuckets and operator trees the equations are built on.

\* The matrix stored under ("flow", "flux") for a grid of n cells, in
\* version v of the discretization.
FluxMatrix(n, v) ==
    LET E(i, j) == IF i = j THEN v + 1 ELSE 1 IN Matrix(n, n, E)

\* The matrix stored under ("flow", "face_flux") for a grid of n cells and
\* n + 1 faces, in version v: one row per face, one column per cell.
FaceFluxMatrix(n, v) ==
    LET E(i, j) == IF i = j THEN v + 1 ELSE IF i = j + 1 THEN -v ELSE 0
    IN Matrix(n + 1, n, E)

\* The data dictionary of a grid with its declarations, its discretization
\* matrices {keyword: {matrix name: matrix}} and its parameters
\* {keyword: {"bc_values": array}}.
EqGridData(g, pv, v) ==
    [primary_variables |-> pv,
     discretization_matrices |->
        << <<"flow", << <<"flux", FluxMatrix(g, v)>>,
                        <<"face_flux", FaceFluxMatrix(g, v)>> >> >> >>,
     parameters |-> << <<"flow", << <<"bc_values", [i \in 1..(g + 1) |-> i]>> >> >> >>]

\* Two grids and the interface between them: "u" on the faces and "p" on
\* the cells of the first grid, "p" on the cells of the second and "lam" on
\* the cells of the mortar grid, the matrices of the first grid in version v.
EqBucket(v) ==
    LET cells == << <<"cells", 1>> >>
        pv1 == << <<"u", << <<"faces", 1>> >> >>, <<"p", cells>> >>
    IN [nodes |-> << Grid(1, EqGridData(1, pv1, v)),
                     Grid(2, EqGridData(2, << <<"p", cells>> >>, 1)) >>,
        edges |-> << Edge(1, [mortar_grid |-> MortarGrid(1),
                              primary_variables |-> << <<"lam", cells>> >>]) >>]

\* The state vectors: vector k of n entries.
StateVec(k, n) == [i \in 1..n |-> ((k * i) % 5) + 1]

\* pp.ad.Matrix(mat) with an r x c matrix.
MatrixLeaf(r, c) ==
    LET E(i, j) == i + 2 * j - 2
    IN Leaf("Matrix", <<r, c>>, [mat |-> Matrix(r, c, E)])

\* pp.ad.Array(values) with n values.
ArrayLeaf(n) == Leaf("Array", n, [values |-> [i \in 1..n |-> 3 * i]])

\* A discretization object: its keyword and its attributes <key>_matrix_key.
FlowDiscr ==
    [keyword |-> "flow",
     matrix_keys |-> << <<"flux", "flux">>, <<"face_flux", "face_flux">> >>]

\* The discretization-bound leaf (operators.MergedOperator) for the flux
\* matrix of the first grid.
FluxLeaf ==
    Leaf("MergedOperator", 1,
         [grid_discr |-> << << <<1>>, FlowDiscr >> >>, key |-> "flux",
          mat_dict_key |-> "None"])

\* The discretization-bound leaf for the face flux matrix of the second grid.
FaceFluxLeaf ==
    Leaf("MergedOperator", 2,
         [grid_discr |-> << << <<2>>, FlowDiscr >> >>, key |-> "face_flux",
          mat_dict_key |-> "None"])

\* pp.ad.Divergence over the second grid, scalar flavour.
DivergenceLeaf == Leaf("Divergence", 2, [g |-> << <<2>> >>, scalar |-> TRUE])

\* pp.ad.Scalar(value)
ScalarLeaf(x) == Leaf("Scalar", x, [value |-> x])

\* pp.ad.Function: the function object of the model.
FunctionLeaf == Leaf("Function", 1, [func |-> "square"])

\* Number of dofs of a registered variable.
SizeOf(v) == Len(dof_ind(dm, v.attrs.g, v.attrs.name).value)

\* The operator trees equations are built from, over the variables of the
\* registry: p1 and p2 are "p" on the two grids, lam is "lam" on the
\* interface, m12 merges p1 and p2.
Trees ==
    LET p1 == RegistryVariable(variables, <<1>>, "p")
        p2 == RegistryVariable(variables, <<2>>, "p")
        lam == RegistryVariable(variables, <<1, 2>>, "lam")
        m12 == MergedVariable(1, <<p1, p2>>)
        n1 == SizeOf(p1)
        n2 == SizeOf(p2)
        nl == SizeOf(lam)
    IN { \* K * m12 - source: a merged variable, two rows
         Node("sub", <<Node("mul", <<MatrixLeaf(n2, n1 + n2), m12>>), ArrayLeaf(n2)>>),
         \* flux * p1 + K * lam: a matrix of the store
         Node("add", <<Node("mul", <<FluxLeaf, p1>>),
                       Node("mul", <<MatrixLeaf(n1, nl), lam>>)>>),
         \* lam + (K * p2 + K * p2): variables at several depths, not in id
         \* order, one of them twice
         Node("add", <<lam, Node("add", <<Node("mul", <<MatrixLeaf(nl, n2), p2>>),
                                          Node("mul", <<MatrixLeaf(nl, n2), p2>>)>>)>>),
         \* K * m12 + K * p2: a merged variable and its second constituent
         Node("add", <<Node("mul", <<MatrixLeaf(1, n1 + n2), m12>>),
                       Node("mul", <<MatrixLeaf(1, n2), p2>>)>>),
         \* K * m12 + p1: a merged variable and its first constituent
         Node("add", <<Node("mul", <<MatrixLeaf(n1, n1 + n2), m12>>), p1>>),
         \* p2 alone
         p2 }

\* Divergence * (face_flux * p) - source for the scalar cell variable p of
\* the second grid.
DivFluxTree ==
    LET p == RegistryVariable(variables, <<2>>, "p")
    IN Node("sub", <<Node("mul", <<DivergenceLeaf, Node("mul", <<FaceFluxLeaf, p>>)>>),
                     ArrayLeaf(SizeOf(p))>>)

\* The operator trees single evaluations are made on: the laws of the
\* operations, well-formed and malformed composite nodes, the divergence of
\* a flux and merged variables.
EvalTrees ==
    LET p1 == RegistryVariable(variables, <<1>>, "p")
        p2 == RegistryVariable(variables, <<2>>, "p")
        lam == RegistryVariable(variables, <<1, 2>>, "lam")
        m12 == MergedVariable(1, <<p1, p2>>)
        n1 == SizeOf(p1)
        n2 == SizeOf(p2)
        nl == SizeOf(lam)
        Kp2 == Node("mul", <<MatrixLeaf(n2, n2), p2>>)
    IN { \* the sum and the difference of two sub-trees with Jacobians
         Node("add", <<Node("mul", <<MatrixLeaf(n1, n2), p2>>), lam>>),
         Node("sub", <<p1, Node("mul", <<MatrixLeaf(n1, n2), p2>>)>>),
         Node("sub", <<Kp2, p2>>),
         \* a constant matrix times a variable, times a sub-tree
         Node("add", <<Kp2, p2>>),
         Node("add", <<Node("mul", <<MatrixLeaf(n1, n2), Kp2>>), p1>>),
         \* the product of two variables
         Node("add", <<Node("mul", <<p1, lam>>), lam>>),
         \* the quotient by a scalar, a function of a variable
         Node("sub", <<Node("div", <<p2, ScalarLeaf(1)>>), ArrayLeaf(n2)>>),
         Node("add", <<Node("evaluate", <<FunctionLeaf, p2>>), p2>>),
         \* a wrong number of children
         Node("add", <<p1>>),
         Node("add", <<p1, lam, p1>>),
         Node("sub", <<p1>>),
         Node("sub", <<p1, lam, p1>>),
         Node("mul", <<p1>>),
         Node("mul", <<MatrixLeaf(n2, n2), p2, ArrayLeaf(n2)>>),
         Node("div", <<p2>>),
         Node("div", <<p2, ScalarLeaf(1), ScalarLeaf(0)>>),
         Node("evaluate", <<p2>>),
         Node("evaluate", <<>>),
         Node("add", <<p1, Node("evaluate", <<>>)>>),
         \* a tag that is no operation on children
         Node("void", <<p1, lam>>),
         Node("void", <<p2>>),
         Node("sub", <<Node("void", <<Kp2, p2, p2>>), ArrayLeaf(n2)>>),
         \* Divergence * (face_flux * p2) - source
         DivFluxTree,
         \* a matrix of the store of the first grid
         Node("add", <<Node("mul", <<FluxLeaf, p1>>),
                       Node("mul", <<MatrixLeaf(n1, nl), lam>>)>>),
         \* a merged variable, alone, with its first and with its second
         \* constituent
         Node("add", <<Node("mul", <<MatrixLeaf(nl, n1 + n2), m12>>), lam>>),
         Node("add", <<Node("mul", <<MatrixLeaf(n1, n1 + n2), m12>>), p1>>),
         Node("add", <<Node("mul", <<MatrixLeaf(1, n1 + n2), m12>>),
                       Node("mul", <<MatrixLeaf(1, n2), p2>>)>>) }

----------------------------------------------------------------------------
\* The equation calls as actions.

\* The state after manager = EquationManager(gb, equations) with an empty list
\* of equations: the registry is set and the assembler holds the layout.
Init ==
    /\ gb = EqBucket(1)
    /\ dm = LET new == DofManagerInit(gb)
            IN [full_dof |-> new.full_dof, block_dof |-> new.block_dof, built |-> TRUE]
    /\ variables = set_variables(gb).variables
    /\ equations = <<>>
    /\ ret = NoCall
    /\ last = NoAssembly

\* equations.append(Equation(operator, dof_manager)) on the list the manager
\* was given: a constructor that raises appends nothing.
NewEquation ==
    /\ Len(equations) < MaxEquations
    /\ \E operator \in Trees :
          \E r \in EquationInit(operator, dm, "None") :
             /\ equations' = IF r.status = "ok" THEN Append(equations, r.eq) ELSE equations
             /\ ret' = [op |-> "Equation", args |-> <<operator>>,
                        status |-> r.status, value |-> r.variables]
             /\ last' = IF r.status = "ok" THEN NoAssembly ELSE last
    /\ UNCHANGED <<gb, dm, variables>>

\* A, rhs = manager.assemble_matrix_rhs(state)
Assemble ==
    /\ \E k \in 1..NumStates :
          \E r \in {assemble_matrix_rhs(equations, dm, gb, StateVec(k, SumSeq(dm.full_dof)))} :
             /\ equations' = r.equations
             /\ ret' = [op |-> "assemble_matrix_rhs",
                        args |-> <<StateVec(k, SumSeq(dm.full_dof))>>,
                        status |-> r.status, value |-> [A |-> r.A, rhs |-> r.rhs]]
             /\ last' = [valid |-> TRUE, state |-> StateVec(k, SumSeq(dm.full_dof)),
                         status |-> r.status, value |-> [A |-> r.A, rhs |-> r.rhs],
                         calls |-> IF last.valid /\ last.state = StateVec(k, SumSeq(dm.full_dof))
                                   THEN 2 ELSE 1]
    /\ UNCHANGED <<gb, dm, variables>>

\* manager.discretize() as a hook that empties the matrix cache of every
\* equation.
DiscretizeClearing ==
    /\ ret' = [NoCall EXCEPT !.op = "discretize"]
    /\ equations' = [k \in 1..Len(equations) |->
                        [equations[k] EXCEPT !.stored_matrices = <<>>]]
    /\ UNCHANGED <<gb, dm, variables, last>>

\* manager.discretize(): pass
Discretize ==
    /\ ret' = [NoCall EXCEPT !.op = "discretize"]
    /\ UNCHANGED <<gb, dm, variables, equations, last>>

\* The discretization layer, outside the manager, writes another version of
\* the matrices of the first grid into the store.
Rediscretize ==
    /\ \E v \in 1..NumVersions :
          /\ gb = EqBucket((v % NumVersions) + 1)
          /\ gb' = EqBucket(v)
    /\ ret' = [NoCall EXCEPT !.op = "rediscretize"]
    /\ last' = NoAssembly
    /\ UNCHANGED <<dm, variables, equations>>

Next == NewEquation \/ Assemble \/ Discretize \/ Rediscretize

Spec == Init /\ [][Next]_vars

\* eq = Equation(operator, dof_manager), the one equation of the manager,
\* over the trees of single evaluations.
BuildEquation ==
    /\ equations = <<>>
    /\ \E operator \in EvalTrees :
          \E r \in EquationInit(operator, dm, "None") :
             /\ equations' = IF r.status = "ok" THEN <<r.eq>> ELSE equations
             /\ ret' = [op |-> "Equation", args |-> <<operator>>,
                        status |-> r.status, value |-> r.variables]
    /\ last' = NoAssembly
    /\ UNCHANGED <<gb, dm, variables>>

\* eq.to_ad(assembler, gb, state) on equation i of the list.
ToAd ==
    /\ \E i \in 1..Len(equations), k \in 1..NumStates :
          \E r \in {to_ad(equations[i], gb, StateVec(k, SumSeq(dm.full_dof)))} :
             /\ equations' = [equations EXCEPT ![i] = r.eq]
             /\ ret' = [op |-> "to_ad",
                        args |-> <<i, StateVec(k, SumSeq(dm.full_dof))>>,
                        status |-> IF r.res.t = "err" THEN r.res.v ELSE "ok",
                        value |-> r.res]
    /\ last' = NoAssembly
    /\ UNCHANGED <<gb, dm, variables>>

\* eq.local_dofs() on equation i of the list.
LocalDofs ==
    /\ \E i \in 1..Len(equations) :
          ret' = [op |-> "local_dofs", args |-> <<i>>,
                  status |-> local_dofs(equations[i]).status,
                  value |-> local_dofs(equations[i]).value]
    /\ UNCHANGED <<gb, dm, variables, equations, last>>

NextEval ==
    BuildEquation \/ ToAd \/ LocalDofs \/ Assemble \/ Discretize \/ Rediscretize

SpecEval == Init /\ [][NextEval]_vars

\* Assemblies over equations whose evaluation can fail in the store.

\* A discretization object whose bound_flux matrix the store holds only
\* once the boundary terms are discretized.
BoundDiscr ==
    [keyword |-> "flow", matrix_keys |-> << <<"bound_flux", "bound_flux">> >>]

\* The discretization-bound leaf for the bound_flux matrix of the first grid.
BoundFluxLeaf ==
    Leaf("MergedOperator", 3,
         [grid_discr |-> << << <<1>>, BoundDiscr >> >>, key |-> "bound_flux",
          mat_dict_key |-> "None"])

\* A discretization-bound leaf that names the keyword "transport", under
\* which no entity stores matrices.
TransportLeaf ==
    Leaf("MergedOperator", 4,
         [grid_discr |-> << << <<1>>, FlowDiscr >> >>, key |-> "flux",
          mat_dict_key |-> "transport"])

\* EqBucket(v) before (v = 1) and after (v > 1) the boundary terms of the
\* first grid are discretized: from version 2 on its store also holds
\* bound_flux.
FailBucket(v) ==
    IF v = 1 THEN EqBucket(v)
    ELSE [EqBucket(v) EXCEPT
            !.nodes[1].d.discretization_matrices =
               << <<"flow", << <<"flux", FluxMatrix(1, v)>>,
                               <<"face_flux", FaceFluxMatrix(1, v)>>,
                               <<"bound_flux", FluxMatrix(1, v + 1)>> >> >> >>]

\* The trees of these equations: flux * p1 + K * lam, which evaluates;
\* flux * p1 + bound_flux * p1, whose second leaf fails while the store
\* lacks bound_flux; transport * p1 + flux * p1, whose first leaf fails.
FailTrees ==
    LET p1 == RegistryVariable(variables, <<1>>, "p")
        lam == RegistryVariable(variables, <<1, 2>>, "lam")
    IN { Node("add", <<Node("mul", <<FluxLeaf, p1>>),
                       Node("mul", <<MatrixLeaf(SizeOf(p1), SizeOf(lam)), lam>>)>>),
         Node("add", <<Node("mul", <<FluxLeaf, p1>>),
                       Node("mul", <<BoundFluxLeaf, p1>>)>>),
         Node("add", <<Node("mul", <<TransportLeaf, p1>>),
                       Node("mul", <<FluxLeaf, p1>>)>>) }

\* equations.append(Equation(operator, dof_manager)) for one of these trees.
AddEquation ==
    /\ Len(equations) < MaxEquations
    /\ \E operator \in FailTrees :
          \E r \in EquationInit(operator, dm, "None") :
             /\ equations' = IF r.status = "ok" THEN Append(equations, r.eq) ELSE equations
             /\ ret' = [op |-> "Equation", args |-> <<operator>>,
                        status |-> r.status, value |-> r.variables]
             /\ last' = IF r.status = "ok" THEN NoAssembly ELSE last
    /\ UNCHANGED <<gb, dm, variables>>

\* The discretization layer writes the next version of the matrices of the
\* first grid into the store, or goes back to the first one.
DiscretizeStore ==
    /\ \E v \in 1..NumVersions :
          /\ gb = FailBucket((v % NumVersions) + 1)
          /\ gb' = FailBucket(v)
    /\ ret' = [NoCall EXCEPT !.op = "rediscretize"]
    /\ last' = NoAssembly
    /\ UNCHANGED <<dm, variables, equations>>

NextFail == AddEquation \/ Assemble \/ DiscretizeStore

SpecFail == Init /\ [][NextFail]_vars

----------------------------------------------------------------------------
\* What the layout claims are stated in: the declarations of the bucket,
\* read off the mesh data and not off the DofManager.

\* The entities in iteration order, grids first, each with its identity, its
\* declarations (none without the key PRIMARY_VARIABLES) and its cell, face
\* and node counts (an interface: the cells of its mortar grid, no faces or
\* nodes).
Entities(bucket) ==
    [k \in 1..(Len(bucket.nodes) + Len(bucket.edges)) |->
        IF k <= Len(bucket.nodes)
        THEN LET n == bucket.nodes[k]
             IN [id |-> n.g,
                 pv |-> IF PRIMARY_VARIABLES \in DOMAIN n.d
                        THEN n.d.primary_variables ELSE <<>>,
                 cells |-> n.num_cells, faces |-> n.num_faces, nodes |-> n.num_nodes]
        ELSE LET e == bucket.edges[k - Len(bucket.nodes)]
             IN [id |-> e.e,
                 pv |-> IF PRIMARY_VARIABLES \in DOMAIN e.d
                        THEN e.d.primary_variables ELSE <<>>,
                 cells |-> e.d.mortar_grid.num_cells, faces |-> 0, nodes |-> 0]]

\* The declared (entity, name) pairs in declaration order, each with the
\* number of dofs its declaration asks for.
DeclaredPairs(bucket) ==
    LET ents == Entities(bucket)
    IN Flatten([k \in 1..Len(ents) |->
          [i \in 1..Len(ents[k].pv) |->
              [key |-> <<ents[k].id, ents[k].pv[i][1]>>,
               size |-> ents[k].cells * Get(ents[k].pv[i][2], "cells", 0)
                        + ents[k].faces * Get(ents[k].pv[i][2], "faces", 0)
                        + ents[k].nodes * Get(ents[k].pv[i][2], "nodes", 0)]]])

DeclaredKeys(bucket) == {q.key : q \in Range(DeclaredPairs(bucket))}

\* The key block_dof gives block index i.
KeyOfBlock(mgr, i) == CHOOSE k \in Keys(mgr.block_dof) : Get(mgr.block_dof, k, -1) = i

----------------------------------------------------------------------------
\* Claims on the DofManager, checked under SpecDof.

\* C1: the index ranges dof_ind returns for the declared pairs, taken in
\* block-index order, partition [0, full_dof.sum()): put one after the other
\* they are exactly 0, 1, ..., full_dof.sum() - 1, the range of block i has
\* length full_dof[i] and starts at sum(full_dof[:i]).
C1_DofIndPartition ==
    dm.built =>
        LET n == Len(dm.full_dof)
            rng(i) == dof_ind(dm, KeyOfBlock(dm, i)[1], KeyOfBlock(dm, i)[2])
        IN /\ \A i \in 0..(n - 1) : \E k \in Keys(dm.block_dof) : Get(dm.block_dof, k, -1) = i
           /\ \A i \in 0..(n - 1) :
                 /\ rng(i).status = "ok"
                 /\ Len(rng(i).value) = dm.full_dof[i + 1]
                 /\ Len(rng(i).value) > 0 =>
                       rng(i).value[1] = SumSeq(SubSeq(dm.full_dof, 1, i))
           /\ Flatten([i \in 1..n |-> rng(i - 1).value]) = ARange(0, SumSeq(dm.full_dof))
           /\ (ret.op = "dof_ind" /\ ret.status = "ok") =>
                 ret.value = rng(Get(dm.block_dof, ret.args, -1)).value

\* C1 witness: a layout of at least three blocks, one of them empty, and
\* dof_ind has returned a range of more than one index that does not start at 0.
C1_Witness ==
    /\ dm.built
    /\ Len(dm.full_dof) >= 3
    /\ \E i \in 1..Len(dm.full_dof) : dm.full_dof[i] = 0
    /\ ret.op = "dof_ind"
    /\ ret.status = "ok"
    /\ Len(ret.value) > 1
    /\ ret.value[1] > 0

\* C2: after construction full_dof.sum() is the sum over the declared pairs
\* of cells*count_c + faces*count_f + nodes*count_n, a kind that is not
\* declared counting 0 and an interface counting the cells of its mortar grid
\* only.
C2_TotalDofs ==
    dm.built =>
        SumSeq(dm.full_dof)
          = SumSeq([i \in 1..Len(DeclaredPairs(gb)) |-> DeclaredPairs(gb)[i].size])

\* C2 witness: a constructed layout over a bucket whose interface declares a
\* faces multiplicity (which adds nothing) and whose grids declare cells,
\* faces and nodes multiplicities.
C2_Witness ==
    /\ dm.built
    /\ SumSeq(dm.full_dof) > 0
    /\ \E k \in 1..Len(gb.edges) :
          /\ PRIMARY_VARIABLES \in DOMAIN gb.edges[k].d
          /\ \E i \in 1..Len(gb.edges[k].d.primary_variables) :
                Get(gb.edges[k].d.primary_variables[i][2], "faces", 0) > 0
    /\ \E k \in 1..Len(gb.nodes) :
          /\ PRIMARY_VARIABLES \in DOMAIN gb.nodes[k].d
          /\ \E i \in 1..Len(gb.nodes[k].d.primary_variables) :
                Get(gb.nodes[k].d.primary_variables[i][2], "faces", 0) > 0
    /\ \E k \in 1..Len(gb.nodes) :
          /\ PRIMARY_VARIABLES \in DOMAIN gb.nodes[k].d
          /\ \E i \in 1..Len(gb.nodes[k].d.primary_variables) :
                Get(gb.nodes[k].d.primary_variables[i][2], "nodes", 0) > 0

\* C3: after construction over n declared pairs block_dof maps the pairs
\* one-to-one onto 0..n-1, the i-th declared pair (grids in iteration order,
\* then interfaces) getting index i, and full_dof has one entry per pair.
C3_BlockIndices ==
    dm.built =>
        LET pairs == DeclaredPairs(gb)
            n == Len(pairs)
        IN /\ Len(dm.block_dof) = n
           /\ Len(dm.full_dof) = Len(dm.block_dof)
           /\ Keys(dm.block_dof) = DeclaredKeys(gb)
           /\ Cardinality(Keys(dm.block_dof)) = n
           /\ {dm.block_dof[i][2] : i \in 1..n} = 0..(n - 1)
           /\ \A i \in 1..n : Get(dm.block_dof, pairs[i].key, -1) = i - 1

\* C3 witness: a constructed layout that numbers pairs of two grids and of an
\* interface, one grid declaring two variables.
C3_Witness ==
    /\ dm.built
    /\ Len(dm.block_dof) >= 4
    /\ \E k \in Keys(dm.block_dof) : Len(k[1]) = 2
    /\ \E k \in Keys(dm.block_dof) : k[2] = "u"
    /\ Len(gb.nodes) >= 2

\* C4: dof_ind called with a pair that was never declared fails and returns
\* no index array, and every dof_ind call, failing or not, leaves block_dof
\* and full_dof as they were.
C4_DofIndUndeclared ==
    [][ret'.op = "dof_ind" =>
          /\ dm' = dm
          /\ ret'.args \notin DeclaredKeys(gb) =>
                (ret'.status = "KeyError" /\ ret'.value = <<>>)
          /\ ret'.args \in DeclaredKeys(gb) => ret'.status = "ok"]_vars

\* C4 witness: dof_ind has failed on an undeclared pair of an entity that
\* declares another variable, over a layout that is not empty.
C4_Witness ==
    /\ ret.op = "dof_ind"
    /\ ret.status = "KeyError"
    /\ \E k \in Keys(dm.block_dof) : k[1] = ret.args[1]
    /\ SumSeq(dm.full_dof) > 0

----------------------------------------------------------------------------
\* What the equation claims are stated in.

RECURSIVE VariableLeaves(_)
\* The Variable and MergedVariable leaves of a tree, at any depth, as a set
\* of objects.
VariableLeaves(op) ==
    IF IsVariable(op) THEN {op}
    ELSE UNION { VariableLeaves(op.children[k]) : k \in 1..Len(op.children) }

RECURSIVE SumSizes(_)
\* The sum of the sizes of a set of variables.
SumSizes(S) ==
    IF S = {} THEN 0
    ELSE LET v == CHOOSE v \in S : TRUE
         IN (IF v.cls = "MergedVariable"
             THEN SumSeq([k \in 1..Len(v.attrs.sub_vars) |-> SizeOf(v.attrs.sub_vars[k])])
             ELSE SizeOf(v))
            + SumSizes(S \ {v})

\* The block of rows and the segment equation i of the list gives for the
\* state vector of the call that has just returned.
EquationBlock(i) ==
    AssembleEquation(equations[i], gb, ret.args[1], SumSeq(dm.full_dof))

\* Rows first+1 .. first+Len(rows) of A are rows, and the same positions of rhs are b.
RowsAt(A, rhs, first, rows, b) ==
    \A h \in 1..Len(rows) :
        /\ first + h <= A.r
        /\ A.a[first + h] = rows[h]
        /\ rhs[first + h] = b[h]

\* The blocks stand in A and rhs one after the other in the order of the list.
BlocksInOrder(A, rhs, blocks) ==
    LET off == CumSum0([i \in 1..Len(blocks) |-> blocks[i].m.r])
    IN /\ A.r = off[Len(blocks) + 1]
       /\ Len(rhs) = off[Len(blocks) + 1]
       /\ \A i \in 1..Len(blocks) :
             /\ blocks[i].status = "ok"
             /\ RowsAt(A, rhs, off[i], blocks[i].m.a, blocks[i].b)

\* The scatter matrix P of the index array idx over total global dofs has one
\* row per index, total columns, and in row i a single nonzero, a 1 in
\* column idx[i] (columns counted from 0).
ScattersTo(P, idx, total) ==
    /\ P.r = Len(idx)
    /\ P.c = total
    /\ Len(P.a) = Len(idx)
    /\ \A i \in 1..Len(idx) :
          /\ Len(P.a[i]) = total
          /\ idx[i] \in 0..(total - 1)
          /\ P.a[i][idx[i] + 1] = 1
          /\ {j \in 1..total : P.a[i][j] # 0} = {idx[i] + 1}

NoRepeat(seq) == \A i, j \in 1..Len(seq) : i # j => seq[i] # seq[j]

\* The Jacobian to_ad gives for equation eq and state vector k, when it gives
\* one, has n columns.
JacobianColumns(eq, k, n) ==
    \E r \in {to_ad(eq, gb, StateVec(k, SumSeq(dm.full_dof)))} :
        r.res.t = "ad" => (r.res.j.c = n /\ \A h \in 1..r.res.j.r : Len(r.res.j.a[h]) = n)

----------------------------------------------------------------------------
\* Claims on Equation and EquationManager, checked under Spec.

\* C5: assemble_matrix_rhs stacks the row blocks of A and the segments of rhs
\* in the order of the equation list: with residual sizes r1..rk, rows
\* [r1+..+r(i-1), r1+..+ri) of A and the same positions of rhs are the block
\* Jacobian * scatter and the negated residual of equation i, and A and rhs
\* have r1+..+rk rows.
C5_RowBlocksInOrder ==
    (ret.op = "assemble_matrix_rhs" /\ ret.status = "ok") =>
        BlocksInOrder(ret.value.A, ret.value.rhs,
                      [i \in 1..Len(equations) |-> EquationBlock(i)])

\* C5 witness: an assembly of two equations with residuals of different
\* sizes and different rows has returned.
C5_Witness ==
    /\ ret.op = "assemble_matrix_rhs"
    /\ ret.status = "ok"
    /\ Len(equations) = 2
    /\ EquationBlock(1).m.r = 2
    /\ EquationBlock(2).m.r = 1
    /\ EquationBlock(1).m.a[1] # EquationBlock(2).m.a[1]
    /\ ret.value.A.r = 3

\* C6: for every Equation of the list the scatter matrix built from
\* idx = local_dofs() has shape (len(idx), full_dof.sum()) and each row i has
\* exactly one nonzero entry, a 1, in column idx[i].
C6_ScatterMatrix ==
    \A k \in 1..Len(equations) :
        /\ local_dofs(equations[k]).status = "ok"
        /\ ScattersTo(Projection(local_dofs(equations[k]).value, SumSeq(dm.full_dof)),
                      local_dofs(equations[k]).value, SumSeq(dm.full_dof))

\* C6 witness: an assembly has returned over an equation whose local dofs
\* do not start at global index 0 and are not consecutive.
C6_Witness ==
    /\ ret.op = "assemble_matrix_rhs"
    /\ ret.status = "ok"
    /\ \E k \in 1..Len(equations) :
          /\ Len(local_dofs(equations[k]).value) >= 2
          /\ local_dofs(equations[k]).value[1] > 0
          /\ local_dofs(equations[k]).value[2] > local_dofs(equations[k]).value[1] + 1

\* C7: for every Equation built from any operator tree, local_dofs()
\* contains no global index twice, also when the tree holds a MergedVariable
\* and one of its constituents.
C7_NoRepeatedLocalDof ==
    \A k \in 1..Len(equations) : NoRepeat(local_dofs(equations[k]).value)

\* C8: for every Equation, local_dofs().size is the sum of the sizes of the
\* distinct variables its tree refers to, a variable that occurs several
\* times counting once, and a Jacobian to_ad returns has that many columns.
C8_LocalDofsSize ==
    \A k \in 1..Len(equations) :
        /\ Len(local_dofs(equations[k]).value)
              = SumSizes(VariableLeaves(equations[k].operator))
        /\ \A s \in 1..NumStates :
              JacobianColumns(equations[k], s,
                              SumSizes(VariableLeaves(equations[k].operator)))

\* C8 witness: an assembly has returned over an equation of two variables
\* whose tree holds one of them twice, and over an equation with a merged
\* variable.
C8_Witness ==
    /\ ret.op = "assemble_matrix_rhs"
    /\ ret.status = "ok"
    /\ \E k \in 1..Len(equations) :
          /\ Cardinality(VariableLeaves(equations[k].operator)) = 2
          /\ Len(find_subtree_variables(equations[k].operator).list) = 3
    /\ \E k \in 1..Len(equations) :
          \E v \in VariableLeaves(equations[k].operator) : v.cls = "MergedVariable"

\* C9: assemble_matrix_rhs called again with the same state vector, the
\* equation list and the stores of the bucket unchanged in between, returns
\* the same (A, rhs), or raises the same error, as the call before.
C9_AssembleTwice ==
    [][(ret'.op = "assemble_matrix_rhs" /\ last.valid /\ last.state = ret'.args[1]) =>
          (ret'.status = last.status /\ ret'.value = last.value)]_vars

\* C9 witness: the second of two assemblies in a row with one state vector
\* has returned, over an equation that has stored a discretization matrix.
C9_Witness ==
    /\ ret.op = "assemble_matrix_rhs"
    /\ ret.status = "ok"
    /\ last.calls = 2
    /\ \E k \in 1..Len(equations) : equations[k].stored_matrices # <<>>

\* C10: variable discovery at Equation construction returns every
\* Variable/MergedVariable leaf of the tree, no two entries having the same
\* id, sorted by ascending id, and the recorded ids and index arrays follow
\* that order and have that length.
C10_VariableDiscovery ==
    (ret.op = "Equation" /\ ret.status = "ok") =>
        LET found == ret.value
            eq == equations[Len(equations)]
        IN /\ Range(found) = VariableLeaves(ret.args[1])
           /\ NoRepeat([i \in 1..Len(found) |-> found[i].attrs.id])
           /\ NoRepeat(eq.variable_ids)
           /\ SortedById(found)
           /\ Len(eq.variable_ids) = Len(found)
           /\ Len(eq.variable_dofs) = Len(found)
           /\ \A i \in 1..Len(found) :
                 /\ eq.variable_ids[i] = found[i].attrs.id
                 /\ Len(eq.variable_dofs[i]) = SumSizes({found[i]})

----------------------------------------------------------------------------
\* Claims on single evaluations, checked under SpecEval.

\* The value the leaf v of equation eq evaluates to, seeded from state
\* vector s, is the dual value _ad holds under id.
LeafValueIs(eq, v, s, id) ==
    \E ad \in {SeededVariables(eq, StateVec(s, SumSeq(dm.full_dof)))} :
        /\ id \in Keys(ad)
        /\ parse_operator(ad, eq.stored_matrices, v, gb, 0).res = Get(ad, id, <<>>)

\* C11: for a MergedVariable over s1..sm in the tree of an Equation, the
\* index array recorded for it is dof_ind(s1), ..., dof_ind(sm) one after the
\* other, the id recorded for it is the id of s1, and the leaf evaluates to
\* the dual value stored under the id of s1.
C11_MergedVariable ==
    \A n \in 1..Len(equations) :
        \A v \in VariableLeaves(equations[n].operator) :
            v.cls = "MergedVariable" =>
                /\ \E i \in 1..Len(equations[n].variable_ids) :
                      /\ equations[n].variable_ids[i] = v.attrs.sub_vars[1].attrs.id
                      /\ equations[n].variable_dofs[i]
                            = Flatten([k \in 1..Len(v.attrs.sub_vars) |->
                                  dof_ind(dm, v.attrs.sub_vars[k].attrs.g,
                                          v.attrs.sub_vars[k].attrs.name).value])
                /\ \A s \in 1..NumStates :
                      LeafValueIs(equations[n], v, s, v.attrs.sub_vars[1].attrs.id)

\* C11 witness: to_ad has returned a value for an equation whose tree holds
\* a MergedVariable over two grids of different sizes.
C11_Witness ==
    /\ ret.op = "to_ad"
    /\ ret.status = "ok"
    /\ \E v \in VariableLeaves(equations[ret.args[1]].operator) :
          /\ v.cls = "MergedVariable"
          /\ Len(v.attrs.sub_vars) = 2
          /\ SizeOf(v.attrs.sub_vars[1]) # SizeOf(v.attrs.sub_vars[2])

RECURSIVE CompositeNodes(_)
\* The composite nodes of a tree: the operators that have a tag other than
\* void or that have children.
CompositeNodes(op) ==
    (IF op.cls = "Operator" THEN {op} ELSE {})
       \cup UNION { CompositeNodes(op.children[k]) : k \in 1..Len(op.children) }

\* The number of children of the node is wrong for its tag.
WrongArity(node) ==
    \/ node.op \in {"add", "sub", "mul", "div"} /\ Len(node.children) # 2
    \/ node.op = "evaluate"
          /\ (node.children = <<>> \/ node.children[1].cls # "Function")

\* C12: evaluating a tree with a composite node whose number of children is
\* wrong for its tag (add, sub, mul, div with other than 2 children,
\* evaluate with no function child) raises an error and never returns a value.
C12_WrongArityIsFatal ==
    (ret.op = "to_ad" /\ \E node \in CompositeNodes(equations[ret.args[1]].operator) :
                             WrongArity(node))
        => (ret.status # "ok" /\ ret.value.t = "err")

\* The tag of the node is none of add, sub, mul, div, evaluate.
UnknownTag(node) == node.op \notin {"add", "sub", "mul", "div", "evaluate"}

\* C13: evaluating a tree with a composite node whose tag is none of add,
\* sub, mul, div, evaluate raises an error and returns no value, whatever
\* the children of the node are; at the root, over children that evaluate,
\* the error is the ValueError of the last branch.
C13_UnknownTagIsFatal ==
    (ret.op = "to_ad" /\ \E node \in CompositeNodes(equations[ret.args[1]].operator) :
                             UnknownTag(node))
        => /\ ret.status # "ok"
           /\ ret.value.t = "err"
           /\ (UnknownTag(equations[ret.args[1]].operator)
                 /\ equations[ret.args[1]].operator.children # <<>>
                 /\ \A k \in 1..Len(equations[ret.args[1]].operator.children) :
                       IsVariable(equations[ret.args[1]].operator.children[k]))
              => ret.status = "ValueError"

\* C13 witness: to_ad has raised the ValueError on a tree whose root has a
\* tag that is no operation and two variables as children.
C13_Witness ==
    /\ ret.op = "to_ad"
    /\ ret.status = "ValueError"
    /\ UnknownTag(equations[ret.args[1]].operator)
    /\ Len(equations[ret.args[1]].operator.children) = 2
    /\ \A k \in 1..2 : IsVariable(equations[ret.args[1]].operator.children[k])

\* What the sub-tree node of equation eq evaluates to in the call of to_ad
\* that has just returned: the same seeded variables and stored matrices.
ValueOf(node) ==
    parse_operator(SeededVariables(equations[ret.args[1]], ret.args[2]),
                   equations[ret.args[1]].stored_matrices, node, gb, 0).res

\* r is a and b combined entry by entry, value and Jacobian, with sign sgn
\* on b.
EntrywiseSum(r, a, b, sgn) ==
    /\ r.t = "ad"
    /\ Len(r.v) = Len(a.v)
    /\ \A i \in 1..Len(a.v) : r.v[i] = a.v[i] + sgn * b.v[i]
    /\ r.j.r = a.j.r
    /\ r.j.c = a.j.c
    /\ \A i \in 1..a.j.r : \A k \in 1..a.j.c :
          r.j.a[i][k] = a.j.a[i][k] + sgn * b.j.a[i][k]

\* C14: for an add node over sub-trees A and B that evaluate to dual values
\* in one equation, the node has value A.value + B.value and Jacobian
\* A.jacobian + B.jacobian entry by entry; a sub node has A.value - B.value
\* and A.jacobian - B.jacobian, A being the first child.
C14_AddSubLaws ==
    (ret.op = "to_ad" /\ ret.status = "ok") =>
      /\ ret.value = ValueOf(equations[ret.args[1]].operator)
      /\ \A node \in CompositeNodes(equations[ret.args[1]].operator) :
              (/\ node.op \in {"add", "sub"}
               /\ Len(node.children) = 2
               /\ ValueOf(node.children[1]).t = "ad"
               /\ ValueOf(node.children[2]).t = "ad")
              => EntrywiseSum(ValueOf(node), ValueOf(node.children[1]),
                              ValueOf(node.children[2]),
                              IF node.op = "add" THEN 1 ELSE -1)

\* C14 witness: to_ad has returned the difference of two sub-trees with
\* different values and different Jacobians.
C14_Witness ==
    /\ ret.op = "to_ad"
    /\ ret.status = "ok"
    /\ equations[ret.args[1]].operator.op = "sub"
    /\ ValueOf(equations[ret.args[1]].operator.children[1]).t = "ad"
    /\ ValueOf(equations[ret.args[1]].operator.children[2]).t = "ad"
    /\ ValueOf(equations[ret.args[1]].operator.children[1])
          # ValueOf(equations[ret.args[1]].operator.children[2])
    /\ ret.value = ValueOf(equations[ret.args[1]].operator)

\* r is the constant matrix M applied from the left to the value and to the
\* Jacobian of f, and nothing else.
LeftMultiplied(r, M, f) ==
    /\ r.t = "ad"
    /\ Len(r.v) = M.r
    /\ \A i \in 1..M.r : r.v[i] = SumSeq([k \in 1..M.c |-> M.a[i][k] * f.v[k]])
    /\ r.j.r = M.r
    /\ r.j.c = f.j.c
    /\ \A i \in 1..M.r : \A c \in 1..f.j.c :
          r.j.a[i][c] = SumSeq([k \in 1..M.c |-> M.a[i][k] * f.j.a[k][c]])

\* C15: for a mul node whose left child is a constant matrix M and whose
\* right child evaluates to a dual value f, the node has value M * f.value
\* and Jacobian M * f.jacobian, with no product-rule term from the constant.
C15_ConstantMatrixMul ==
    (ret.op = "to_ad") =>
        \A node \in CompositeNodes(equations[ret.args[1]].operator) :
            (/\ node.op = "mul"
             /\ Len(node.children) = 2
             /\ node.children[1].cls \in {"Matrix", "MergedOperator", "Divergence"}
             /\ ValueOf(node.children[1]).t = "mat"
             /\ ValueOf(node.children[2]).t = "ad"
             /\ ValueOf(node.children[1]).v.c = Len(ValueOf(node.children[2]).v))
            => LeftMultiplied(ValueOf(node), ValueOf(node.children[1]).v,
                              ValueOf(node.children[2]))

\* C15 witness: to_ad has returned a value for a tree in which a matrix
\* that is not square multiplies a sub-tree that is itself a product.
C15_Witness ==
    /\ ret.op = "to_ad"
    /\ ret.status = "ok"
    /\ \E node \in CompositeNodes(equations[ret.args[1]].operator) :
          /\ node.op = "mul"
          /\ Len(node.children) = 2
          /\ node.children[1].cls = "Matrix"
          /\ node.children[1].attrs.mat.r # node.children[1].attrs.mat.c
          /\ node.children[2].op = "mul"
          /\ ValueOf(node.children[2]).t = "ad"

\* The pieces of the equation Divergence * (face_flux * p) - source on the
\* second grid: the divergence, the face flux matrix of the store, the
\* source, the global columns of p and the state p0 of p in the state vector
\* of the call that has just returned.
DivFlux ==
    [div |-> Divergence(gb, <<2>>, TRUE),
     flux |-> Lookup(Lookup(Props(gb, <<2>>).discretization_matrices, "flow").value,
                     "face_flux").value,
     source |-> ArrayLeaf(2).attrs.values,
     cols |-> dof_ind(dm, <<2>>, "p").value,
     p0 |-> Take(ret.args[1], dof_ind(dm, <<2>>, "p").value)]

\* An assembly of the single equation DivFluxTree has returned.
DivFluxAssembled ==
    /\ ret.op = "assemble_matrix_rhs"
    /\ ret.status = "ok"
    /\ Len(equations) = 1
    /\ equations[1].operator = DivFluxTree

\* The block of A over the global columns of p is Div * flux, and the other
\* columns of A are zero.
DivFluxJacobian(A, e) ==
    /\ A.r = e.div.r
    /\ A.c = SumSeq(dm.full_dof)
    /\ \A i \in 1..A.r :
          /\ \A c \in 1..Len(e.cols) :
                A.a[i][e.cols[c] + 1]
                   = SumSeq([f \in 1..e.div.c |-> e.div.a[i][f] * e.flux.a[f][c]])
          /\ \A g \in 1..A.c : (g - 1) \notin Range(e.cols) => A.a[i][g] = 0

\* Div * (flux * p0) - source, entry i.
DivFluxResidual(e, i) ==
    SumSeq([f \in 1..e.div.c |->
               e.div.a[i][f] * SumSeq([c \in 1..e.flux.c |-> e.flux.a[f][c] * e.p0[c]])])
       - e.source[i]

\* C16 as stated: for the single equation Divergence * (flux_matrix * p) -
\* source, assemble_matrix_rhs(p0) returns the vector Div * (flux_matrix *
\* p0) - source and a Jacobian whose block over the global columns of p is
\* Div * flux_matrix.
C16_DivFluxAsStated ==
    DivFluxAssembled =>
        /\ DivFluxJacobian(ret.value.A, DivFlux)
        /\ Len(ret.value.rhs) = DivFlux.div.r
        /\ \A i \in 1..Len(ret.value.rhs) :
              ret.value.rhs[i] = DivFluxResidual(DivFlux, i)

\* C16 amended: for the single equation Divergence * (flux_matrix * p) -
\* source, assemble_matrix_rhs(p0) returns as rhs the negated residual,
\* source - Div * (flux_matrix * p0), and a Jacobian whose block over the
\* global columns of p is Div * flux_matrix, its other columns being zero.
C16_DivFluxNegated ==
    DivFluxAssembled =>
        /\ DivFluxJacobian(ret.value.A, DivFlux)
        /\ Len(ret.value.rhs) = DivFlux.div.r
        /\ \A i \in 1..Len(ret.value.rhs) :
              ret.value.rhs[i] = 0 - DivFluxResidual(DivFlux, i)

\* C16 witness: the assembly of the single equation has returned with a
\* residual that is not zero, p not being the first variable of the layout.
C16_Witness ==
    /\ DivFluxAssembled
    /\ \E i \in 1..Len(ret.value.rhs) : ret.value.rhs[i] # 0
    /\ DivFlux.cols[1] > 0

\* Every entry of the cache before is in the cache after, unchanged.
CacheKept(before, after) ==
    \A key \in Keys(before) :
        key \in Keys(after) /\ Get(after, key, <<>>) = Get(before, key, <<>>)

\* The Equation after differs from the Equation before in its matrix cache
\* at most, and the cache has lost or changed no entry.
OnlyCacheAdded(before, after) ==
    /\ [after EXCEPT !.stored_matrices = <<>>] = [before EXCEPT !.stored_matrices = <<>>]
    /\ CacheKept(before.stored_matrices, after.stored_matrices)

\* C17: every call of to_ad and of local_dofs leaves the tree, the index
\* arrays, the variable ids and every other attribute of the Equation as
\* they were; the matrix cache is the only state the call may add to.
C17_OnlyCacheMutated ==
    [][ret'.op \in {"to_ad", "local_dofs"} =>
          /\ Len(equations') = Len(equations)
          /\ \A i \in 1..Len(equations) : OnlyCacheAdded(equations[i], equations'[i])]_vars

RECURSIVE StoreLeaves(_)
\* The discretization-bound leaves of a tree.
StoreLeaves(op) ==
    (IF op.cls = "MergedOperator" THEN {op} ELSE {})
       \cup UNION { StoreLeaves(op.children[k]) : k \in 1..Len(op.children) }

\* The matrix the store of the bucket holds for the leaf now.
InStore(leaf) == ResolveMergedOperator(gb, leaf).v

\* to_ad of equation eq for the state vector gives res whatever version of
\* the discretization matrices the store holds.
SameForEveryStore(eq, state, res) ==
    \A v \in 1..NumVersions : to_ad(eq, EqBucket(v), state).res = res

\* C18: no operation removes or replaces an entry of the matrix cache of an
\* Equation; an evaluation that returns has stored every discretization-bound
\* leaf of the tree; and once the leaves are stored, an evaluation returns
\* what the stored matrices give, whatever the store holds by then.
C18_CacheKeptForGood ==
    [][/\ Len(equations') >= Len(equations)
       /\ \A i \in 1..Len(equations) :
             CacheKept(equations[i].stored_matrices, equations'[i].stored_matrices)
       /\ (ret'.op = "to_ad" /\ ret'.status = "ok") =>
             /\ StoreLeaves(equations[ret'.args[1]].operator)
                   \subseteq Keys(equations'[ret'.args[1]].stored_matrices)
             /\ StoreLeaves(equations[ret'.args[1]].operator)
                   \subseteq Keys(equations[ret'.args[1]].stored_matrices)
                => SameForEveryStore(equations[ret'.args[1]], ret'.args[2], ret'.value)]_vars

\* C18 witness: to_ad has returned for an equation whose stored matrix is
\* not the matrix the store holds now.
C18_Witness ==
    /\ ret.op = "to_ad"
    /\ ret.status = "ok"
    /\ \E leaf \in StoreLeaves(equations[ret.args[1]].operator) :
          /\ leaf \in Keys(equations[ret.args[1]].stored_matrices)
          /\ Get(equations[ret.args[1]].stored_matrices, leaf, <<>>) # InStore(leaf)

----------------------------------------------------------------------------
\* Claims on the caches of several equations, checked under Spec.

\* Equation `after` is equation `before` untouched, or as its own to_ad for
\* the state vector leaves it, and what it has stored in the step it has
\* read from the store of the bucket.
OwnEvaluation(before, after, state) ==
    /\ after \in {before, to_ad(before, gb, state).eq}
    /\ \A leaf \in Keys(after.stored_matrices) \ Keys(before.stored_matrices) :
          Get(after.stored_matrices, leaf, <<>>) = InStore(leaf)

\* C19: the matrix cache of an Equation is its own.  In every step each
\* equation is left as it was or as its own evaluation, from its own cache
\* and the store, leaves it, whatever the other equations of the list have
\* stored; an equation added to the list starts with an empty cache.
C19_CachePrivate ==
    [][/\ \A k \in 1..Len(equations) :
             /\ k <= Len(equations')
             /\ \/ equations'[k] = equations[k]
                \/ /\ ret'.op = "assemble_matrix_rhs"
                   /\ OwnEvaluation(equations[k], equations'[k], ret'.args[1])
       /\ \A k \in (Len(equations) + 1)..Len(equations') :
             equations'[k].stored_matrices = <<>>]_vars

\* C19 witness: an assembly has returned over two equations that hold the
\* same discretization-bound leaf and have stored different matrices for it.
C19_Witness ==
    /\ ret.op = "assemble_matrix_rhs"
    /\ ret.status = "ok"
    /\ Len(equations) = 2
    /\ \E leaf \in StoreLeaves(equations[1].operator) \cap StoreLeaves(equations[2].operator) :
          /\ leaf \in Keys(equations[1].stored_matrices)
          /\ leaf \in Keys(equations[2].stored_matrices)
          /\ Get(equations[1].stored_matrices, leaf, <<>>)
                # Get(equations[2].stored_matrices, leaf, <<>>)

----------------------------------------------------------------------------
\* The discretize hook, checked under SpecEval.

\* C20: discretize() changes nothing: the variables of the manager, the
\* equations with their matrix caches, the DOF layout and the data of the
\* bucket are after the call what they were before it, and an assembly for
\* any state vector gives after the call what it gave before it, and leaves
\* the equations as it would have left them.
C20_DiscretizeNoOp ==
    [][ret'.op = "discretize" =>
          /\ variables' = variables
          /\ equations' = equations
          /\ dm' = dm
          /\ gb' = gb
          /\ \A k \in 1..NumStates :
                assemble_matrix_rhs(equations', dm', gb', StateVec(k, SumSeq(dm'.full_dof)))
                   = assemble_matrix_rhs(equations, dm, gb, StateVec(k, SumSeq(dm.full_dof)))]_vars

\* C20 witness: discretize() has returned after an assembly, an equation of
\* the manager holding a stored matrix that is not the one in the store.
C20_Witness ==
    /\ ret.op = "discretize"
    /\ last.valid
    /\ last.status = "ok"
    /\ \E k \in 1..Len(equations) :
          \E leaf \in Keys(equations[k].stored_matrices) :
             Get(equations[k].stored_matrices, leaf, <<>>) # InStore(leaf)

----------------------------------------------------------------------------
\* Claims on whole assembly calls, checked under Spec.

\* Equation `after` is the list member `before`: the same tree, DOF index
\* arrays, variable ids and name.
SameMember(before, after) ==
    /\ after.operator = before.operator
    /\ after.variable_dofs = before.variable_dofs
    /\ after.variable_ids = before.variable_ids
    /\ after.name = before.name

\* C21: assemble_matrix_rhs leaves the setup state as it was: the variable
\* registry, block_dof and full_dof of the layout, and the equation list,
\* which holds the same members in the same order after the call.
C21_AssemblyReadsSetup ==
    [][ret'.op = "assemble_matrix_rhs" =>
          /\ variables' = variables
          /\ dm' = dm
          /\ Len(equations') = Len(equations)
          /\ \A k \in 1..Len(equations) : SameMember(equations[k], equations'[k])]_vars

\* C21 witness: the second of two assemblies in a row has returned over a
\* list of two equations with different trees.
C21_Witness ==
    /\ ret.op = "assemble_matrix_rhs"
    /\ ret.status = "ok"
    /\ last.calls = 2
    /\ Len(equations) = 2
    /\ equations[1].operator # equations[2].operator

----------------------------------------------------------------------------
\* Claims on assemblies that fail, checked under SpecFail.

\* The turn of the assembly loop for equation k of the list, the state vector
\* being state.
TurnOf(k, state) ==
    AssembleEquation(equations[k], gb, state, SumSeq(dm.full_dof))

\* Equation f is the first of the list whose turn fails for the state vector.
FirstFailing(f, state) ==
    /\ f \in 1..Len(equations)
    /\ TurnOf(f, state).status # "ok"
    /\ \A k \in 1..(f - 1) : TurnOf(k, state).status = "ok"

\* C22: when the evaluation of an equation fails during assemble_matrix_rhs,
\* the call raises the error of the first failing equation and returns no A
\* and no rhs; the failing equation has been evaluated once and the
\* equations after it have not been evaluated at all.
C22_FailureAbortsAssembly ==
    [][ret'.op = "assemble_matrix_rhs" =>
          \A f \in 1..Len(equations) :
             FirstFailing(f, ret'.args[1]) =>
                /\ ret'.status = TurnOf(f, ret'.args[1]).status
                /\ ret'.value = [A |-> <<>>, rhs |-> <<>>]
                /\ equations'[f] = TurnOf(f, ret'.args[1]).eq
                /\ \A k \in (f + 1)..Len(equations) : equations'[k] = equations[k]]_vars

\* C22 witness: an assembly has raised the KeyError of a leaf the store does
\* not hold, in the first of two equations, and the second equation, whose
\* tree holds a leaf of the store, has never been evaluated.
C22_Witness ==
    /\ ret.op = "assemble_matrix_rhs"
    /\ ret.status = "KeyError"
    /\ Len(equations) = 2
    /\ {BoundFluxLeaf, TransportLeaf} \cap StoreLeaves(equations[1].operator) # {}
    /\ {BoundFluxLeaf, TransportLeaf} \cap StoreLeaves(equations[2].operator) = {}
    /\ equations[2].stored_matrices = <<>>
    /\ equations[2].ad = <<>>

----------------------------------------------------------------------------
\* Claims on the assembled system, checked under SpecEval.

\* What to_ad gives for equation k of the list and the state vector of the
\* call that has just returned.
LocalResult(k) == to_ad(equations[k], gb, ret.args[1]).res

\* The sum of the entries of row r of the local Jacobian J over the local
\* columns j whose global index idx[j] is g.
ScatteredEntry(J, idx, r, g) ==
    SumSeq([j \in 1..Len(idx) |-> IF idx[j] = g THEN J.a[r][j] ELSE 0])

\* C23: the A assemble_matrix_rhs returns has full_dof.sum() columns and as
\* many rows as the residuals have entries, and in the row block of each
\* equation the entry in row r and global column g is the sum of the entries
\* (r, j) of the local Jacobian over the local columns j with
\* local_dofs()[j] = g: a column of a DOF the equation does not refer to is
\* zero in the block.
C23_ColumnsScattered ==
    (ret.op = "assemble_matrix_rhs" /\ ret.status = "ok") =>
        LET first == CumSum0([k \in 1..Len(equations) |-> Len(LocalResult(k).v)])
        IN /\ ret.value.A.c = SumSeq(dm.full_dof)
           /\ ret.value.A.r = first[Len(equations) + 1]
           /\ \A k \in 1..Len(equations) :
                 \A r \in 1..Len(LocalResult(k).v) :
                    /\ Len(ret.value.A.a[first[k] + r]) = SumSeq(dm.full_dof)
                    /\ \A g \in 0..(SumSeq(dm.full_dof) - 1) :
                          ret.value.A.a[first[k] + r][g + 1] =
                             ScatteredEntry(LocalResult(k).j,
                                            local_dofs(equations[k]).value, r, g)

\* C23 witness: an assembly has returned over an equation that refers to
\* some but not all global DOFs, not the first ones, with a Jacobian that has
\* a nonzero entry in each of two local columns of one global DOF.
C23_Witness ==
    /\ ret.op = "assemble_matrix_rhs"
    /\ ret.status = "ok"
    /\ \E k \in 1..Len(equations) :
          /\ Range(local_dofs(equations[k]).value) # 0..(SumSeq(dm.full_dof) - 1)
          /\ local_dofs(equations[k]).value[1] > 0
          /\ \E i, j \in 1..Len(local_dofs(equations[k]).value) :
                /\ i < j
                /\ local_dofs(equations[k]).value[i] = local_dofs(equations[k]).value[j]
                /\ \E r \in 1..LocalResult(k).j.r :
                      LocalResult(k).j.a[r][i] # 0 /\ LocalResult(k).j.a[r][j] # 0

\* C24: for every equation the segment of the rhs assemble_matrix_rhs
\* returns is the value of the equation's to_ad result with every entry
\* negated, and its block of rows of A is the Jacobian of that result times
\* the scatter matrix, with the sign the Jacobian has.
C24_ResidualNegated ==
    (ret.op = "assemble_matrix_rhs" /\ ret.status = "ok") =>
        LET first == CumSum0([k \in 1..Len(equations) |-> Len(LocalResult(k).v)])
        IN /\ Len(ret.value.rhs) = first[Len(equations) + 1]
           /\ \A k \in 1..Len(equations) :
                 \A i \in 1..Len(LocalResult(k).v) :
                    /\ ret.value.rhs[first[k] + i] = 0 - LocalResult(k).v[i]
                    /\ ret.value.A.a[first[k] + i] =
                          MatMul(LocalResult(k).j,
                                 Projection(local_dofs(equations[k]).value,
                                            SumSeq(dm.full_dof))).a[i]

\* C24 witness: an assembly has returned over an equation whose residual has
\* a nonzero entry and whose Jacobian has a nonzero entry.
C24_Witness ==
    /\ ret.op = "assemble_matrix_rhs"
    /\ ret.status = "ok"
    /\ \E k \in 1..Len(equations) :
          /\ \E i \in 1..Len(LocalResult(k).v) :
                LocalResult(k).v[i] # 0 /\ ret.value.rhs[i] # LocalResult(k).v[i]
          /\ \E r \in 1..LocalResult(k).j.r, j \in 1..LocalResult(k).j.c :
                LocalResult(k).j.a[r][j] # 0

----------------------------------------------------------------------------
\* Claims on the seeding of the variables, checked under SpecEval.

\* The DOF indices of a variable leaf in the layout: dof_ind of the variable,
\* or of the constituents of a merged variable one after the other.
OwnDofs(v) ==
    IF v.cls = "MergedVariable"
    THEN Flatten([k \in 1..Len(v.attrs.sub_vars) |->
                    dof_ind(dm, v.attrs.sub_vars[k].attrs.g,
                            v.attrs.sub_vars[k].attrs.name).value])
    ELSE dof_ind(dm, v.attrs.g, v.attrs.name).value

\* The first local column of the block of leaf v among the variable leaves of
\* the tree op in ascending id, counted from 0: the sizes of the leaves of
\* smaller id.
ColumnOffset(op, v) ==
    SumSizes({w \in VariableLeaves(op) : w.attrs.id < v.attrs.id})

\* The dual value res is seeded from the DOFs own for the state vector: its
\* value is the state at own, its Jacobian has width columns, a 1 in row i
\* at column offset + i and 0 elsewhere.
SeededFrom(res, own, state, offset, width) ==
    /\ res.t = "ad"
    /\ res.v = Take(state, own)
    /\ res.j.r = Len(own)
    /\ res.j.c = width
    /\ \A i \in 1..Len(own) :
          \A j \in 1..width : res.j.a[i][j] = IF j = offset + i THEN 1 ELSE 0

\* C25: in to_ad every Variable or MergedVariable leaf of the tree evaluates
\* to the dual value seeded from its own DOFs: the state at the leaf's DOF
\* indices, with a Jacobian that is the identity on the leaf's column block,
\* placed by ascending id, and zero on the blocks of the other variables.
C25_LeafSeededFromOwnDofs ==
    \A n \in 1..Len(equations) :
        \A v \in VariableLeaves(equations[n].operator) :
            \A s \in 1..NumStates :
                SeededFrom(
                    parse_operator(
                        SeededVariables(equations[n], StateVec(s, SumSeq(dm.full_dof))),
                        equations[n].stored_matrices, v, gb, 0).res,
                    OwnDofs(v), StateVec(s, SumSeq(dm.full_dof)),
                    ColumnOffset(equations[n].operator, v),
                    SumSizes(VariableLeaves(equations[n].operator)))

----------------------------------------------------------------------------
\* Claims on entities without variables, checked under SpecDof.

\* The grid or interface x declares no variable: its data dictionary has no
\* key PRIMARY_VARIABLES, or an empty dictionary under it.
DeclaresNothing(x) ==
    PRIMARY_VARIABLES \notin DOMAIN x.d \/ x.d.primary_variables = <<>>

DeclaresSomething(x) == ~DeclaresNothing(x)

\* The bucket without the grids and interfaces that declare no variable.
Pruned(bucket) ==
    [nodes |-> SelectSeq(bucket.nodes, DeclaresSomething),
     edges |-> SelectSeq(bucket.edges, DeclaresSomething)]

\* C26: DofManager construction passes over every grid and interface that
\* declares no variable: block_dof has no key of such an entity, and
\* block_dof and full_dof are what construction gives for the bucket without
\* these entities, so they use up no block index and add nothing to full_dof.
C26_UndeclaredSkipped ==
    dm.built =>
        /\ \A n \in Range(gb.nodes) :
              DeclaresNothing(n) => \A k \in Keys(dm.block_dof) : k[1] # n.g
        /\ \A e \in Range(gb.edges) :
              DeclaresNothing(e) => \A k \in Keys(dm.block_dof) : k[1] # e.e
        /\ dm.block_dof = DofManagerInit(Pruned(gb)).block_dof
        /\ dm.full_dof = DofManagerInit(Pruned(gb)).full_dof

\* C26 witness: a layout built for a bucket whose first grid has no key
\* PRIMARY_VARIABLES, whose interface has an empty dictionary under it, and
\* whose second grid declares variables.
C26_Witness ==
    /\ dm.built
    /\ Len(gb.nodes) >= 2
    /\ PRIMARY_VARIABLES \notin DOMAIN gb.nodes[1].d
    /\ DeclaresSomething(gb.nodes[2])
    /\ PRIMARY_VARIABLES \in DOMAIN gb.edges[1].d
    /\ DeclaresNothing(gb.edges[1])
    /\ dm.block_dof # <<>>

----------------------------------------------------------------------------
\* Claims on construction, checked under Spec.

\* C27: an Equation can be built from a tree that is a single Variable or
\* MergedVariable leaf: the constructor returns, the variables discovered
\* are that one variable, the Equation is in the list and its local_dofs()
\* are the DOF indices of the variable.
C27_SingleLeafTree ==
    (ret.op = "Equation" /\ IsVariable(ret.args[1])) =>
        /\ ret.status = "ok"
        /\ ret.value = <<ret.args[1]>>
        /\ equations # <<>>
        /\ equations[Len(equations)].operator = ret.args[1]
        /\ local_dofs(equations[Len(equations)]).value = OwnDofs(ret.args[1])

----------------------------------------------------------------------------
\* Claims on the registry against the layout, checked under SpecDof.

\* C28: for every bucket a layout was built for, EquationManager(gb)
\* returns, and its registry holds a Variable for a pair (entity, name)
\* exactly when block_dof holds a block index for the pair, also when an
\* entity of the bucket declares no variables.
C28_RegistryMatchesLayout ==
    ret.op = "EquationManager" =>
        /\ ret.status = "ok"
        /\ \A e \in AskEntities, name \in AskNames :
              (RegistryVariable(variables, e, name) # <<>>)
                 <=> (<<e, name>> \in Keys(dm.block_dof))

----------------------------------------------------------------------------
\* Claims on the empty equation list, checked under SpecFail.

\* C29: assemble_matrix_rhs on a manager whose equation list is empty raises
\* an error and returns no system, neither A nor rhs.
C29_EmptyListFails ==
    (ret.op = "assemble_matrix_rhs" /\ equations = <<>>) =>
        /\ ret.status # "ok"
        /\ ret.value = [A |-> <<>>, rhs |-> <<>>]

\* C29 witness: an assembly on the manager built without equations has
\* raised the ValueError of stacking no blocks.
C29_Witness ==
    /\ ret.op = "assemble_matrix_rhs"
    /\ equations = <<>>
    /\ ret.status = "ValueError"
    /\ SumSeq(dm.full_dof) > 0

----------------------------------------------------------------------------
\* Claims on the cache after a failed evaluation, checked under SpecFail.

RECURSIVE LeafOrder(_)
\* The discretization-bound leaves of a tree in the order the evaluation
\* comes to them: the children of a node from left to right, each one
\* evaluated in full before the next.
LeafOrder(op) ==
    IF op.cls = "MergedOperator" THEN <<op>>
    ELSE Flatten([k \in 1..Len(op.children) |-> LeafOrder(op.children[k])])

\* Leaf i of the order is the first one the evaluation of equation eq cannot
\* resolve: it is not in the cache, its lookup in the store fails, and every
\* leaf before it is in the cache or in the store.
FirstUnresolved(eq, i) ==
    /\ LeafOrder(eq.operator)[i] \notin Keys(eq.stored_matrices)
    /\ ResolveMergedOperator(gb, LeafOrder(eq.operator)[i]).t = "err"
    /\ \A j \in 1..(i - 1) :
          \/ LeafOrder(eq.operator)[j] \in Keys(eq.stored_matrices)
          \/ ResolveMergedOperator(gb, LeafOrder(eq.operator)[j]).t = "mat"

\* C30: a failed evaluation does not roll the cache back.  When an assembly
\* fails in the lookup of a leaf, that leaf is not in the cache of its
\* equation afterwards, the leaves the equation resolved before it are, with
\* the matrices of the store, and so are all the leaves of the equations
\* evaluated before the failing one; a leaf that comes into a cache in a
\* later assembly holds what the store holds then.
C30_NoRollback ==
    [][ret'.op = "assemble_matrix_rhs" =>
          /\ \A k \in 1..Len(equations) :
                \A leaf \in Keys(equations'[k].stored_matrices)
                               \ Keys(equations[k].stored_matrices) :
                   Get(equations'[k].stored_matrices, leaf, <<>>) = InStore(leaf)
          /\ \A f \in 1..Len(equations) :
                FirstFailing(f, ret'.args[1]) =>
                   /\ \A k \in 1..(f - 1) :
                         StoreLeaves(equations[k].operator)
                            \subseteq Keys(equations'[k].stored_matrices)
                   /\ \A i \in 1..Len(LeafOrder(equations[f].operator)) :
                         FirstUnresolved(equations[f], i) =>
                            /\ LeafOrder(equations[f].operator)[i]
                                  \notin Keys(equations'[f].stored_matrices)
                            /\ \A j \in 1..(i - 1) :
                                  LeafOrder(equations[f].operator)[j]
                                     \in Keys(equations'[f].stored_matrices)]_vars

\* C30 witness: an assembly has raised KeyError in its second equation; the
\* first equation holds its leaf in the cache, and the second holds the
\* leaf it resolved before the one whose lookup failed, and not that one.
C30_Witness ==
    /\ ret.op = "assemble_matrix_rhs"
    /\ ret.status = "KeyError"
    /\ Len(equations) = 2
    /\ StoreLeaves(equations[1].operator) = {FluxLeaf}
    /\ Keys(equations[1].stored_matrices) = {FluxLeaf}
    /\ LeafOrder(equations[2].operator) = <<FluxLeaf, BoundFluxLeaf>>
    /\ Keys(equations[2].stored_matrices) = {FluxLeaf}

====
